---- MODULE Spec2Model ----
(***************************************************************************)
(* Scramble: a two-player, same-device word board game (React/TypeScript). *)
(* The model follows the latest App component (src/unnamed/part_002), the  *)
(* tile and dictionary helpers (src/unnamed/part_003), the board layout    *)
(* (src/src/data/board.ts) and the scorer (src/src/data/scoring.ts).       *)
(*                                                                         *)
(* A React handler runs to completion between two renders, so one handler  *)
(* is one action.  The two setTimeout callbacks (recall and pass, 600 ms)  *)
(* are actions of their own: they run later, against whatever the game     *)
(* state is by then, with only the values their closure captured.          *)
(***************************************************************************)
EXTENDS Integers, Sequences, FiniteSets, TLC

(***************************************************************************)
(* Bounds of the model (the program's own numbers are further below).      *)
(***************************************************************************)
\* tiles dealt to a rack; the program deals 7 (initializeGame), scaled down
RackSize == 2
\* number of board cells a tile may be dropped on (a prefix of DropOrder)
NumDropCells == 5
\* turn-consuming operations stop once the turn number could pass this
MaxTurn == 3
\* recall/pass callbacks that may be pending at once
MaxTimers == 1
\* user events that fit into the 600 ms a timer runs
MaxRaceSteps == 1
\* setTimeout calls the model follows in one run
MaxTimersSet == 1
\* the turn by whose end the dictionary fetch has resolved
MaxLoadTurn == 1

(***************************************************************************)
(* Program constants.                                                      *)
(***************************************************************************)
BOARD_SIZE == 15
CENTER == 7
ALL_TILES_COUNT == 7
ALL_TILES_BONUS == 50

null == 0 - 1

Min(a, b) == IF a < b THEN a ELSE b

RECURSIVE SumSeq(_)
SumSeq(s) == IF s = <<>> THEN 0 ELSE Head(s) + SumSeq(Tail(s))

Range(s) == { s[i] : i \in 1..Len(s) }

(***************************************************************************)
(* Tiles (types.ts, data/tiles.ts).                                        *)
(***************************************************************************)
\* "no tile" in a board cell, "no tile being dragged"
NoTile == [id |-> null, letter |-> "", points |-> 0, isBlank |-> FALSE]

\* The tile distribution input (scramble_tiles.json is not part of the
\* sources): a small distribution with a repeated letter and a blank.
tilesData ==
  << [letter |-> "A", points |-> 1, count |-> 2, isBlank |-> FALSE],
     [letter |-> "B", points |-> 2, count |-> 1, isBlank |-> FALSE],
     [letter |-> "",  points |-> 0, count |-> 1, isBlank |-> TRUE],
     [letter |-> "C", points |-> 3, count |-> 1, isBlank |-> FALSE] >>

\* letters the blank-letter selector offers (the program offers A..Z)
BlankLetters == {"A"}

RECURSIVE ExpandTiles(_, _)
ExpandTiles(data, nextId) ==
  IF data = <<>> THEN <<>>
  ELSE LET d == Head(data)
       IN  [i \in 1..d.count |->
              [id |-> nextId + i - 1, letter |-> d.letter,
               points |-> d.points, isBlank |-> d.isBlank]]
           \o ExpandTiles(Tail(data), nextId + d.count)

\* Fisher-Yates, driven by the values Math.random() returns: rnd[i] is the
\* index j drawn at step i (0 <= j <= i, JavaScript indices).
RECURSIVE FisherYates(_, _, _)
FisherYates(a, i, rnd) ==
  IF i < 1 THEN a
  ELSE LET j == rnd[i]
           swapped == [a EXCEPT ![i + 1] = a[j + 1], ![j + 1] = a[i + 1]]
       IN  FisherYates(swapped, i - 1, rnd)

shuffleBag(bag, rnd) == FisherYates(bag, Len(bag) - 1, rnd)

\* The random streams the model draws from: Math.random() always close to 1
\* (j = i, nothing moves) or always 0 (j = 0, the list rotates).
RandomSources(n) == { [i \in 1..n |-> i], [i \in 1..n |-> 0] }

createTileBag(rnd) == shuffleBag(ExpandTiles(tilesData, 0), rnd)

TotalTiles == Len(ExpandTiles(tilesData, 0))

\* mutation: a draw that asks for more than the bag holds draws nothing
drawTilesOnlyIfEnough(bag, count) ==
  [drawn     |-> IF count <= Len(bag) THEN SubSeq(bag, 1, count) ELSE <<>>,
   remaining |-> IF count <= Len(bag) THEN SubSeq(bag, count + 1, Len(bag)) ELSE bag]

\* bag.slice(0, count) / bag.slice(count)
drawTiles(bag, count) ==
  [drawn     |-> SubSeq(bag, 1, Min(count, Len(bag))),
   remaining |-> SubSeq(bag, Min(count, Len(bag)) + 1, Len(bag))]

(***************************************************************************)
(* Dictionary (data/dictionary.ts).  Words are sequences of letters.       *)
(***************************************************************************)
toLowerCase(ch) ==
  CASE ch = "A" -> "a" [] ch = "B" -> "b" [] ch = "C" -> "c" [] OTHER -> ch

\* the word list dict.txt supplies (an input; lower case as loadDictionary stores it)
DictWords == { <<"a", "a">>, <<"a", "b">>, <<"b", "b">> }

\* the module-level `dictionary`: not loaded, or a set of words
NotLoaded == [loaded |-> FALSE, words |-> {}]

isValidWord(dict, word) ==
  IF ~dict.loaded THEN FALSE
  ELSE [i \in 1..Len(word) |-> toLowerCase(word[i])] \in dict.words

(***************************************************************************)
(* Board (data/board.ts).                                                  *)
(***************************************************************************)
Idx == 0..(BOARD_SIZE - 1)

TRIPLE_WORD == { <<0,0>>, <<0,7>>, <<0,14>>, <<7,0>>, <<7,14>>,
                 <<14,0>>, <<14,7>>, <<14,14>> }
DOUBLE_WORD == { <<1,1>>, <<2,2>>, <<3,3>>, <<4,4>>,
                 <<1,13>>, <<2,12>>, <<3,11>>, <<4,10>>,
                 <<13,1>>, <<12,2>>, <<11,3>>, <<10,4>>,
                 <<13,13>>, <<12,12>>, <<11,11>>, <<10,10>> }
TRIPLE_LETTER == { <<1,5>>, <<1,9>>, <<5,1>>, <<5,5>>, <<5,9>>, <<5,13>>,
                   <<9,1>>, <<9,5>>, <<9,9>>, <<9,13>>, <<13,5>>, <<13,9>> }
DOUBLE_LETTER == { <<0,3>>, <<0,11>>, <<2,6>>, <<2,8>>, <<3,0>>, <<3,7>>,
                   <<3,14>>, <<6,2>>, <<6,6>>, <<6,8>>, <<6,12>>, <<7,3>>,
                   <<7,11>>, <<8,2>>, <<8,6>>, <<8,8>>, <<8,12>>, <<11,0>>,
                   <<11,7>>, <<11,14>>, <<12,6>>, <<12,8>>, <<14,3>>, <<14,11>> }

getBonusType(row, col) ==
  IF row = CENTER /\ col = CENTER THEN "center"
  ELSE IF <<row, col>> \in TRIPLE_WORD THEN "triple-word"
  ELSE IF <<row, col>> \in DOUBLE_WORD THEN "double-word"
  ELSE IF <<row, col>> \in TRIPLE_LETTER THEN "triple-letter"
  ELSE IF <<row, col>> \in DOUBLE_LETTER THEN "double-letter"
  ELSE "none"

\* a cell's row, col and bonus are fixed by its position; the model keeps the
\* two fields that change (placedByPlayer, a display colour, is left out)
EmptyCell == [tile |-> NoTile, isNewlyPlaced |-> FALSE]

createEmptyBoard == [r \in Idx |-> [c \in Idx |-> EmptyCell]]

hasTile(b, r, c) == b[r][c].tile /= NoTile

(***************************************************************************)
(* Scorer and placement validator (data/scoring.ts).                       *)
(***************************************************************************)
NoWord == [word |-> <<>>, cells |-> <<>>, score |-> 0]

\* mutation: the bonus of a cell counts whenever a tile lies on it
ScoreCellAnyTurn(t, isNewlyPlaced, bonus, acc) ==
  IF t = NoTile THEN acc
  ELSE << acc[1] + (IF bonus = "double-letter" THEN t.points * 2
                    ELSE IF bonus = "triple-letter" THEN t.points * 3
                    ELSE t.points),
          IF bonus \in {"double-word", "center"} THEN acc[2] * 2
          ELSE IF bonus = "triple-word" THEN acc[2] * 3
          ELSE acc[2] >>

\* one pass of the loop of calculateWordScore over a cell holding tile t;
\* acc = <<wordScore, wordMultiplier>>
ScoreCell(t, isNewlyPlaced, bonus, acc) ==
  IF t = NoTile THEN acc
  ELSE << acc[1] + (IF isNewlyPlaced /\ bonus = "double-letter" THEN t.points * 2
                    ELSE IF isNewlyPlaced /\ bonus = "triple-letter" THEN t.points * 3
                    ELSE t.points),
          IF isNewlyPlaced /\ bonus \in {"double-word", "center"} THEN acc[2] * 2
          ELSE IF isNewlyPlaced /\ bonus = "triple-word" THEN acc[2] * 3
          ELSE acc[2] >>

RECURSIVE ScoreCells(_, _, _, _)
ScoreCells(b, cells, newlyPlacedSet, acc) ==
  IF cells = <<>> THEN acc
  ELSE ScoreCells(b, Tail(cells), newlyPlacedSet,
                  ScoreCell(b[Head(cells).row][Head(cells).col].tile,
                            <<Head(cells).row, Head(cells).col>> \in newlyPlacedSet,
                            getBonusType(Head(cells).row, Head(cells).col),
                            acc))

\* mutation: the word multiplier is left out
TimesOne(acc) == acc[1]

\* wordScore * wordMultiplier
Times(acc) == acc[1] * acc[2]

calculateWordScore(b, cells, newlyPlacedSet) ==
  Times(ScoreCells(b, cells, newlyPlacedSet, <<0, 1>>))

\* does cell i of line `fixed` hold a tile (a row when horizontal, else a column)
occupied(b, fixed, i, direction) ==
  IF direction = "horizontal" THEN hasTile(b, fixed, i) ELSE hasTile(b, i, fixed)

\* the two while loops of getWordAt: walk back to the start of the run, then
\* forward while the cells hold a tile
RunStart(b, fixed, k, direction) ==
  CHOOSE s \in 0..k :
    /\ \A i \in s..(k - 1) : occupied(b, fixed, i, direction)
    /\ (s = 0 \/ ~occupied(b, fixed, s - 1, direction))

RunEnd(b, fixed, start, direction) ==
  CHOOSE e \in start..BOARD_SIZE :
    /\ \A i \in start..(e - 1) : occupied(b, fixed, i, direction)
    /\ (e = BOARD_SIZE \/ ~occupied(b, fixed, e, direction))

\* the cells start .. end-1 of line `fixed`
RunCells(fixed, direction, start, end) ==
  [i \in 1..(end - start) |->
     IF direction = "horizontal" THEN [row |-> fixed, col |-> start + i - 1]
     ELSE [row |-> start + i - 1, col |-> fixed]]

CellsFrom(b, fixed, direction, start) ==
  RunCells(fixed, direction, start, RunEnd(b, fixed, start, direction))

\* cells.map(c => c.tile.letter).join(''): an unassigned blank adds nothing
WordOfCells(b, cells, newlyPlacedSet) ==
  IF Len(cells) < 2 THEN NoWord
  ELSE [word  |-> SelectSeq([i \in 1..Len(cells) |->
                               b[cells[i].row][cells[i].col].tile.letter],
                            LAMBDA l : l /= ""),
        cells |-> cells,
        score |-> calculateWordScore(b, cells, newlyPlacedSet)]

getWordAt(b, row, col, direction, newlyPlacedSet) ==
  IF direction = "horizontal"
  THEN WordOfCells(b, CellsFrom(b, row, direction, RunStart(b, row, col, direction)),
                   newlyPlacedSet)
  ELSE WordOfCells(b, CellsFrom(b, col, direction, RunStart(b, col, row, direction)),
                   newlyPlacedSet)

\* the body of the loop over placedTiles: keep perpWord unless it is too short
\* or already listed (same first cell and same letters)
AddWord(words, perpWord) ==
  IF /\ Len(perpWord.cells) > 1
     /\ ~\E i \in 1..Len(words) :
          /\ words[i].cells[1] = perpWord.cells[1]
          /\ words[i].word = perpWord.word
  THEN Append(words, perpWord)
  ELSE words

RECURSIVE PerpWords(_, _, _, _, _)
PerpWords(b, rest, direction, newlyPlacedSet, words) ==
  IF rest = <<>> THEN words
  ELSE PerpWords(b, Tail(rest), direction, newlyPlacedSet,
                 AddWord(words, getWordAt(b, Head(rest).row, Head(rest).col,
                                          direction, newlyPlacedSet)))

Invalid(words, error) ==
  [isValid |-> FALSE, words |-> words, totalScore |-> 0, errors |-> <<error>>]

\* words.every(w => isValidWord(w.word))
validateWordsWithBlanks(words, dict) ==
  \A i \in 1..Len(words) : isValidWord(dict, words[i].word)

rowsOf(placedTiles) == { placedTiles[i].row : i \in 1..Len(placedTiles) }
colsOf(placedTiles) == { placedTiles[i].col : i \in 1..Len(placedTiles) }
isHorizontal(placedTiles) == Cardinality(rowsOf(placedTiles)) = 1
isVertical(placedTiles) == Cardinality(colsOf(placedTiles)) = 1
lowest(S) == CHOOSE x \in S : \A y \in S : x <= y
highest(S) == CHOOSE x \in S : \A y \in S : x >= y

\* an empty cell between the first and the last tile placed
hasGap(b, placedTiles) ==
  IF isHorizontal(placedTiles)
  THEN \E c \in lowest(colsOf(placedTiles))..highest(colsOf(placedTiles)) :
         ~hasTile(b, placedTiles[1].row, c)
  ELSE \E r \in lowest(rowsOf(placedTiles))..highest(rowsOf(placedTiles)) :
         ~hasTile(b, r, placedTiles[1].col)

\* mutation: any placement in the centre row counts as through the centre
touchesCenterRow(placedTiles) == \E i \in 1..Len(placedTiles) : placedTiles[i].row = CENTER

touchesCenter(placedTiles) == \E i \in 1..Len(placedTiles) :
  placedTiles[i].row = CENTER /\ placedTiles[i].col = CENTER

placedSetOf(placedTiles) ==
  { <<placedTiles[i].row, placedTiles[i].col>> : i \in 1..Len(placedTiles) }

adjacent(pos) == { <<pos.row - 1, pos.col>>, <<pos.row + 1, pos.col>>,
                   <<pos.row, pos.col - 1>>, <<pos.row, pos.col + 1>> }

\* some placed tile has a neighbour tile that was not placed this turn
connectsToExisting(b, placedTiles) ==
  \E i \in 1..Len(placedTiles) :
    \E a \in adjacent(placedTiles[i]) :
      /\ a[1] \in Idx /\ a[2] \in Idx
      /\ hasTile(b, a[1], a[2])
      /\ ~\E k \in 1..Len(placedTiles) :
           placedTiles[k].row = a[1] /\ placedTiles[k].col = a[2]

\* words = [mainWord] when it has more than one cell
MainWords(mainWord) == IF Len(mainWord.cells) > 1 THEN <<mainWord>> ELSE <<>>

\* mutation: the perpendicular word of the first placed tile only
wordsFormedFirstTile(b, placedTiles, direction, perpendicular, placedSet) ==
  PerpWords(b, <<placedTiles[1]>>, perpendicular, placedSet,
            MainWords(getWordAt(b, placedTiles[1].row, placedTiles[1].col,
                                direction, placedSet)))

\* the main word, then the perpendicular word of every placed tile
wordsFormed(b, placedTiles, direction, perpendicular, placedSet) ==
  PerpWords(b, placedTiles, perpendicular, placedSet,
            MainWords(getWordAt(b, placedTiles[1].row, placedTiles[1].col,
                                direction, placedSet)))

\* mutation: no bonus for a whole rack
finalScoreNoBonus(totalScore, placedCount) == totalScore

\* the bonus for using all the tiles of a rack
finalScore(totalScore, placedCount) ==
  IF placedCount = ALL_TILES_COUNT THEN totalScore + ALL_TILES_BONUS ELSE totalScore

\* mutation: a placement that forms no word is judged like any other
judgeWordsNoneNeeded(words, placedCount, dict) ==
  IF ~validateWordsWithBlanks(words, dict)
    THEN Invalid(words, "Cannot form valid words with this placement")
  ELSE [isValid |-> TRUE, words |-> words,
        totalScore |-> finalScore(SumSeq([i \in 1..Len(words) |-> words[i].score]),
                                  placedCount),
        errors |-> <<>>]

\* the end of findWordsFromPlacement, from `if (words.length === 0)` on
judgeWords(words, placedCount, dict) ==
  IF Len(words) = 0
    THEN Invalid(<<>>, "Must form at least one word")
  ELSE IF ~validateWordsWithBlanks(words, dict)
    THEN Invalid(words, "Cannot form valid words with this placement")
  ELSE [isValid |-> TRUE, words |-> words,
        totalScore |-> finalScore(SumSeq([i \in 1..Len(words) |-> words[i].score]),
                                  placedCount),
        errors |-> <<>>]

\* mutation: the centre square is looked at before the gaps
findWordsCentreFirst(b, placedTiles, firstMove, dict) ==
  IF Len(placedTiles) = 0 THEN Invalid(<<>>, "No tiles placed")
  ELSE IF ~isHorizontal(placedTiles) /\ ~isVertical(placedTiles)
    THEN Invalid(<<>>, "Tiles must be placed in a single row or column")
  ELSE IF firstMove /\ ~touchesCenter(placedTiles)
    THEN Invalid(<<>>, "First word must go through the center square")
  ELSE IF hasGap(b, placedTiles)
    THEN Invalid(<<>>, "Tiles must be placed without gaps")
  ELSE IF ~firstMove /\ ~connectsToExisting(b, placedTiles)
    THEN Invalid(<<>>, "Word must connect to existing tiles")
  ELSE IF isHorizontal(placedTiles)
    THEN judgeWords(wordsFormed(b, placedTiles, "horizontal", "vertical",
                                placedSetOf(placedTiles)),
                    Len(placedTiles), dict)
  ELSE judgeWords(wordsFormed(b, placedTiles, "vertical", "horizontal",
                              placedSetOf(placedTiles)),
                  Len(placedTiles), dict)

findWordsFromPlacement(b, placedTiles, firstMove, dict) ==
  IF Len(placedTiles) = 0 THEN Invalid(<<>>, "No tiles placed")
  ELSE IF ~isHorizontal(placedTiles) /\ ~isVertical(placedTiles)
    THEN Invalid(<<>>, "Tiles must be placed in a single row or column")
  ELSE IF hasGap(b, placedTiles)
    THEN Invalid(<<>>, "Tiles must be placed without gaps")
  ELSE IF firstMove /\ ~touchesCenter(placedTiles)
    THEN Invalid(<<>>, "First word must go through the center square")
  ELSE IF ~firstMove /\ ~connectsToExisting(b, placedTiles)
    THEN Invalid(<<>>, "Word must connect to existing tiles")
  ELSE IF isHorizontal(placedTiles)
    THEN judgeWords(wordsFormed(b, placedTiles, "horizontal", "vertical",
                                placedSetOf(placedTiles)),
                    Len(placedTiles), dict)
  ELSE judgeWords(wordsFormed(b, placedTiles, "vertical", "horizontal",
                              placedSetOf(placedTiles)),
                  Len(placedTiles), dict)

\* mutation: the words are looked up in the word list after all
tournamentWordsLookedUp(words, placedCount) ==
  judgeWords(words, placedCount, [loaded |-> TRUE, words |-> DictWords])

\* the end of calculateTournamentScore, from `if (words.length === 0)` on: no
\* word is looked up in the dictionary
tournamentWords(words, placedCount) ==
  IF Len(words) = 0
    THEN Invalid(<<>>, "Must form at least one word")
  ELSE [isValid |-> TRUE, words |-> words,
        totalScore |-> finalScore(SumSeq([i \in 1..Len(words) |-> words[i].score]),
                                  placedCount),
        errors |-> <<>>]

calculateTournamentScore(b, placedTiles, firstMove) ==
  IF Len(placedTiles) = 0 THEN Invalid(<<>>, "No tiles placed")
  ELSE IF ~isHorizontal(placedTiles) /\ ~isVertical(placedTiles)
    THEN Invalid(<<>>, "Tiles must be placed in a single row or column")
  ELSE IF hasGap(b, placedTiles)
    THEN Invalid(<<>>, "Tiles must be placed without gaps")
  ELSE IF firstMove /\ ~touchesCenter(placedTiles)
    THEN Invalid(<<>>, "First word must go through the center square")
  ELSE IF ~firstMove /\ ~connectsToExisting(b, placedTiles)
    THEN Invalid(<<>>, "Word must connect to existing tiles")
  ELSE IF isHorizontal(placedTiles)
    THEN tournamentWords(wordsFormed(b, placedTiles, "horizontal", "vertical",
                                     placedSetOf(placedTiles)),
                         Len(placedTiles))
  ELSE tournamentWords(wordsFormed(b, placedTiles, "vertical", "horizontal",
                                   placedSetOf(placedTiles)),
                       Len(placedTiles))

(***************************************************************************)
(* State.                                                                  *)
(***************************************************************************)
VARIABLES
  \* GameState (types.ts)
  board, players, currentPlayerIndex, tileBag, turnNumber, placedThisTurn,
  isFirstMove, gameOver, winner,
  \* App component state
  gamePhase, gameMode, hidePlayerTiles, rackRevealState,
  draggingTile, dragSourceCell, blankSelection,
  exchangeMode, selectedForExchange,
  dictionaryLoaded, message, gameMessage,
  \* the module-level dictionary of data/dictionary.ts
  dictionary,
  \* the pending setTimeout callbacks of handleRecallTiles and handlePass,
  \* oldest first (equal delays fire in the order they were set), each with
  \* what its closure captured and the user events that still fit before it
  timers,
  \* how many setTimeout calls handleRecallTiles and handlePass have made
  timersSet

gameVars == <<board, players, currentPlayerIndex, tileBag, turnNumber,
              placedThisTurn, isFirstMove, gameOver, winner>>
dragVars == <<draggingTile, dragSourceCell, blankSelection>>
exchangeVars == <<exchangeMode, selectedForExchange>>
settingVars == <<gameMode, hidePlayerTiles>>
dictVars == <<dictionary, dictionaryLoaded>>
vars == <<board, players, currentPlayerIndex, tileBag, turnNumber,
          placedThisTurn, isFirstMove, gameOver, winner,
          gamePhase, gameMode, hidePlayerTiles, rackRevealState,
          draggingTile, dragSourceCell, blankSelection,
          exchangeMode, selectedForExchange,
          dictionaryLoaded, message, gameMessage, dictionary, timers, timersSet>>

PlayerIdx == {0, 1}

\* mutation: the turn stays with the same player
OtherSame(p) == p

\* prev.currentPlayerIndex === 0 ? 1 : 0
Other(p) == IF p = 0 THEN 1 ELSE 0

GameModes == {"standard", "expert", "freeplay"}

NoCell == [row |-> null, col |-> null]
NoSelection == [tile |-> NoTile, row |-> null, col |-> null, fromBoard |-> FALSE]
\* a message of the message areas is kept by its type; null is "none"
Msg(type) == [type |-> type]
NoMessage == Msg("none")

\* the cells the model drops tiles on, the centre first
DropOrder == << <<7, 7>>, <<7, 8>>, <<8, 7>>, <<8, 8>>, <<7, 9>>, <<9, 9>>, <<6, 7>> >>
DropCells == { DropOrder[i] : i \in 1..Min(NumDropCells, Len(DropOrder)) }

rackOf(p) == players[p].rack
withoutId(rack, id) == SelectSeq(rack, LAMBDA t : t.id /= id)

\* mutation: a returned blank keeps the letter it was given
resetBlankKeeps(t) == t

\* mutation: a blank keeps its letter when it leaves the board
resetBlankKeepsLetter(t) == t

\* tile.isBlank ? { ...tile, letter: '' } : tile
resetBlank(t) == IF t.isBlank THEN [t EXCEPT !.letter = ""] ELSE t

\* initializeGame: a shuffled bag, 7 tiles to each player
initializeGame(rnd) ==
  LET bag == createTileBag(rnd)
      d1 == drawTiles(bag, RackSize)
      d2 == drawTiles(d1.remaining, RackSize)
  IN  [board |-> createEmptyBoard,
       players |-> [p \in PlayerIdx |->
                      [score |-> 0, rack |-> IF p = 0 THEN d1.drawn ELSE d2.drawn]],
       currentPlayerIndex |-> 0,
       tileBag |-> d2.remaining,
       turnNumber |-> 1,
       placedThisTurn |-> <<>>,
       isFirstMove |-> TRUE,
       gameOver |-> FALSE,
       winner |-> null]

SetGame(g) ==
  /\ board' = g.board
  /\ players' = g.players
  /\ currentPlayerIndex' = g.currentPlayerIndex
  /\ tileBag' = g.tileBag
  /\ turnNumber' = g.turnNumber
  /\ placedThisTurn' = g.placedThisTurn
  /\ isFirstMove' = g.isFirstMove
  /\ gameOver' = g.gameOver
  /\ winner' = g.winner

\* App(): the useState initialisers with nothing in localStorage
Init ==
  /\ \E rnd \in RandomSources(TotalTiles - 1) :
       LET g == initializeGame(rnd)
       IN  /\ board = g.board
           /\ players = g.players
           /\ currentPlayerIndex = g.currentPlayerIndex
           /\ tileBag = g.tileBag
           /\ turnNumber = g.turnNumber
           /\ placedThisTurn = g.placedThisTurn
           /\ isFirstMove = g.isFirstMove
           /\ gameOver = g.gameOver
           /\ winner = g.winner
  /\ gamePhase = "start"
  /\ gameMode = "standard"
  /\ hidePlayerTiles = FALSE
  /\ rackRevealState = [activeRack |-> 0, readyPending |-> FALSE]
  /\ draggingTile = NoTile
  /\ dragSourceCell = NoCell
  /\ blankSelection = NoSelection
  /\ exchangeMode = FALSE
  /\ selectedForExchange = {}
  /\ dictionaryLoaded = FALSE
  /\ dictionary = NotLoaded
  /\ message = NoMessage
  /\ gameMessage = NoMessage
  /\ timers = <<>>
  /\ timersSet = 0

(***************************************************************************)
(* What the rendered page lets the user do.                                *)
(***************************************************************************)
\* the start modal or the blank-letter selector covers the page
ModalOpen == gamePhase = "start" \/ blankSelection /= NoSelection
\* no drag is in progress (the pointer cannot click while it drags)
PointerFree == draggingTile = NoTile
CanClick == ~ModalOpen /\ PointerFree

showReadyButton(index) ==
  /\ hidePlayerTiles
  /\ rackRevealState.readyPending
  /\ currentPlayerIndex = index
  /\ rackRevealState.activeRack /= index

\* turn-consuming operations are cut off at MaxTurn (pass callbacks still
\* pending will each add one)
PendingPasses == Len(SelectSeq(timers, LAMBDA t : t.kind = "pass"))
TurnBudget == turnNumber + PendingPasses < MaxTurn

\* a user event while timers run uses up one of the events that fit before
\* they fire; the oldest timer fires first once none is left
Ticked == [i \in 1..Len(timers) |-> [timers[i] EXCEPT !.slack = @ - 1]]
TimersAllow == \A i \in 1..Len(timers) : timers[i].slack > 0
Tick ==
  /\ TimersAllow
  /\ timers' = Ticked
  /\ UNCHANGED timersSet
\* a new timer, behind the ones already running
SetTimer(kind, player) ==
  /\ Len(timers) < MaxTimers
  /\ timersSet < MaxTimersSet
  /\ TimersAllow
  /\ timers' = Append(Ticked, [kind |-> kind, player |-> player,
                               tilesToRecall |-> placedThisTurn,
                               slack |-> MaxRaceSteps])
  /\ timersSet' = timersSet + 1

\* play is followed up to turn MaxTurn (beyond it once the game is over), up
\* to the firing of the last timer the model sets, and past turn MaxLoadTurn
\* only with the dictionary fetch resolved; what is in flight by then, a
\* drag, is still completed
TimersLeft == timersSet < MaxTimersSet \/ timers /= <<>>
StillPlaying ==
  /\ TimersLeft
  /\ turnNumber < MaxTurn \/ gameOver
  /\ dictionaryLoaded \/ turnNumber <= MaxLoadTurn

ClearDrag ==
  /\ draggingTile' = NoTile
  /\ dragSourceCell' = NoCell

(***************************************************************************)
(* Drag and drop.                                                          *)
(***************************************************************************)
\* the rack tile also lies on a board cell; the drag of such a tile is followed
\* past the horizon of StillPlaying
OnBoardToo(tile) ==
  \E cell \in DropCells :
    hasTile(board, cell[1], cell[2]) /\ board[cell[1]][cell[2]].tile.id = tile.id

\* a rack tile is draggable when it is the current player's and exchange
\* mode is off (PlayerRack)
handleDragStart(tile) ==
  /\ CanClick
  /\ StillPlaying \/ OnBoardToo(tile)
  /\ ~exchangeMode
  /\ ~showReadyButton(currentPlayerIndex)
  /\ tile \in Range(rackOf(currentPlayerIndex))
  /\ draggingTile' = tile
  /\ dragSourceCell' = NoCell
  /\ UNCHANGED <<gameVars, gamePhase, settingVars, rackRevealState, blankSelection,
                 exchangeVars, dictVars, message, gameMessage>>
  /\ Tick

\* a board tile is draggable while its cell is flagged newly placed (GameBoard)
handleBoardTileDragStart(row, col) ==
  /\ CanClick
  /\ StillPlaying
  /\ hasTile(board, row, col)
  /\ board[row][col].isNewlyPlaced
  /\ draggingTile' = board[row][col].tile
  /\ dragSourceCell' = [row |-> row, col |-> col]
  /\ UNCHANGED <<gameVars, gamePhase, settingVars, rackRevealState, blankSelection,
                 exchangeVars, dictVars, message, gameMessage>>
  /\ Tick

handleDragEnd ==
  /\ draggingTile /= NoTile
  /\ ClearDrag
  /\ UNCHANGED <<gameVars, gamePhase, settingVars, rackRevealState, blankSelection,
                 exchangeVars, dictVars, message, gameMessage>>
  /\ Tick

\* the state update handleDropTile and handleBlankLetterSelect share: put
\* `tile` on (row, col), coming from the cell `source` or from the rack
placeOnBoard(tile, row, col, fromBoard, source) ==
  LET cleared == IF source /= NoCell
                 THEN [board EXCEPT ![source.row][source.col] = EmptyCell]
                 ELSE board
  IN  /\ board' = [cleared EXCEPT ![row][col] =
                     [tile |-> tile, isNewlyPlaced |-> TRUE]]
      /\ players' = IF ~fromBoard
                    THEN [players EXCEPT ![currentPlayerIndex].rack =
                            withoutId(@, tile.id)]
                    ELSE players
      /\ placedThisTurn' =
           IF fromBoard
           THEN [i \in 1..Len(placedThisTurn) |->
                   IF placedThisTurn[i].tile.id = tile.id
                   THEN [row |-> row, col |-> col, tile |-> tile]
                   ELSE placedThisTurn[i]]
           ELSE Append(placedThisTurn, [row |-> row, col |-> col, tile |-> tile])
      /\ UNCHANGED <<currentPlayerIndex, tileBag, turnNumber, isFirstMove,
                     gameOver, winner>>

handleDropTile(row, col) ==
  /\ draggingTile /= NoTile
  /\ blankSelection = NoSelection
  /\ LET onSource == dragSourceCell /= NoCell /\ dragSourceCell.row = row
                     /\ dragSourceCell.col = col
     IN  IF (hasTile(board, row, col) /\ ~onSource) \/ onSource
         THEN \* occupied cell, or dropped where it came from: nothing moves
              /\ ClearDrag
              /\ UNCHANGED <<gameVars, blankSelection, message>>
         ELSE IF draggingTile.isBlank /\ draggingTile.letter = ""
         THEN \* ask for the blank's letter first; the drag state stays
              /\ blankSelection' = [tile |-> draggingTile, row |-> row, col |-> col,
                                    fromBoard |-> dragSourceCell /= NoCell]
              /\ UNCHANGED <<gameVars, draggingTile, dragSourceCell, message>>
         ELSE /\ placeOnBoard(draggingTile, row, col, dragSourceCell /= NoCell,
                              dragSourceCell)
              /\ ClearDrag
              /\ message' = NoMessage
              /\ UNCHANGED blankSelection
  /\ UNCHANGED <<gamePhase, settingVars, rackRevealState, exchangeVars, dictVars,
                 gameMessage>>
  /\ Tick

\* the current player's rack takes back a tile placed this turn
handleDropToRack ==
  /\ draggingTile /= NoTile
  /\ dragSourceCell /= NoCell
  /\ blankSelection = NoSelection
  /\ \E i \in 1..Len(placedThisTurn) : placedThisTurn[i].tile.id = draggingTile.id
  /\ board' = [board EXCEPT ![dragSourceCell.row][dragSourceCell.col] = EmptyCell]
  /\ players' = [players EXCEPT ![currentPlayerIndex].rack =
                   Append(@, resetBlank(draggingTile))]
  /\ placedThisTurn' = SelectSeq(placedThisTurn,
                                 LAMBDA q : q.tile.id /= draggingTile.id)
  /\ ClearDrag
  /\ UNCHANGED <<currentPlayerIndex, tileBag, turnNumber, isFirstMove, gameOver,
                 winner, gamePhase, settingVars, rackRevealState, blankSelection,
                 exchangeVars, dictVars, message, gameMessage>>
  /\ Tick

handleBlankLetterSelect(letter) ==
  /\ blankSelection /= NoSelection
  /\ LET updatedTile == [blankSelection.tile EXCEPT !.letter = letter]
         source == IF blankSelection.fromBoard /\ dragSourceCell /= NoCell
                   THEN dragSourceCell ELSE NoCell
     IN  placeOnBoard(updatedTile, blankSelection.row, blankSelection.col,
                      blankSelection.fromBoard, source)
  /\ blankSelection' = NoSelection
  /\ ClearDrag
  /\ message' = NoMessage
  /\ UNCHANGED <<gamePhase, settingVars, rackRevealState, exchangeVars, dictVars,
                 gameMessage>>
  /\ Tick

(***************************************************************************)
(* Recall.                                                                 *)
(***************************************************************************)
\* mutation: the recall empties the whole board
boardEmptied(b, placed) == createEmptyBoard

\* the board with every cell of `placed` emptied
RECURSIVE boardWithout(_, _)
boardWithout(b, placed) ==
  IF placed = <<>> THEN b
  ELSE boardWithout([b EXCEPT ![Head(placed).row][Head(placed).col] = EmptyCell],
                    Tail(placed))

\* the tiles of `placed`, blanks reset to the empty letter
tilesReturned(placed) == [i \in 1..Len(placed) |-> resetBlank(placed[i].tile)]

\* the click only starts the animation and sets the 600 ms timer
handleRecallTiles ==
  /\ CanClick
  /\ placedThisTurn /= <<>>
  /\ ~gameOver
  /\ SetTimer("recall", null)
  /\ UNCHANGED <<gameVars, gamePhase, settingVars, rackRevealState, dragVars,
                 exchangeVars, dictVars, message, gameMessage>>

\* the timer callback of handleRecallTiles
recallCallback ==
  /\ timers /= <<>>
  /\ Head(timers).kind = "recall"
  /\ timers' = Tail(timers)
  /\ UNCHANGED timersSet
  /\ board' = boardWithout(board, placedThisTurn)
  /\ players' = [players EXCEPT ![currentPlayerIndex].rack =
                   @ \o tilesReturned(placedThisTurn)]
  /\ placedThisTurn' = <<>>
  /\ message' = NoMessage
  /\ UNCHANGED <<currentPlayerIndex, tileBag, turnNumber, isFirstMove, gameOver,
                 winner, gamePhase, settingVars, rackRevealState, dragVars,
                 exchangeVars, dictVars, gameMessage>>

(***************************************************************************)
(* Submit.                                                                 *)
(***************************************************************************)
placedPositions ==
  [i \in 1..Len(placedThisTurn) |->
     [row |-> placedThisTurn[i].row, col |-> placedThisTurn[i].col]]

submitResult == findWordsFromPlacement(board, placedPositions, isFirstMove, dictionary)

errorMessage(result) ==
  IF Len(result.errors) > 0 THEN result.errors[1] ELSE "Invalid placement"

isInvalidWordError(result) ==
  errorMessage(result) = "Cannot form valid words with this placement"

\* mutation: a word the dictionary lacks loses the turn in every mode
turnLostAnyMode(result) == isInvalidWordError(result)

\* gameMode === 'expert' && isInvalidWordError
turnLost(result) == gameMode = "expert" /\ isInvalidWordError(result)

\* gameMode === 'freeplay' && isInvalidWordError
freePlayAccepts(result) == gameMode = "freeplay" /\ isInvalidWordError(result)

freePlayScore ==
  SumSeq([i \in 1..Len(placedThisTurn) |-> placedThisTurn[i].tile.points])

\* mutation: equal scores go to player 1
winnerOfStrict(ps) == IF ps[0].score > ps[1].score THEN 0 ELSE 1

\* mutation: the winner is never recorded
winnerOfNobody(ps) == null

\* winner = players[0].score >= players[1].score ? 0 : 1
winnerOf(ps) == IF ps[0].score >= ps[1].score THEN 0 ELSE 1

\* mutation: an accepted play draws nothing
tilesToDrawNone == Len(<<>>)

\* Math.min(prev.placedThisTurn.length, prev.tileBag.length)
tilesToDraw == Min(Len(placedThisTurn), Len(tileBag))

\* mutation: the points of a play go to the opponent
acceptPlayForOther(score) ==
  LET d == drawTiles(tileBag, tilesToDraw)
      newPlayers == [players EXCEPT
                       ![Other(currentPlayerIndex)].score = @ + score,
                       ![currentPlayerIndex].rack = @ \o d.drawn]
      isGameOver == Len(newPlayers[currentPlayerIndex].rack) = 0
                    /\ Len(d.remaining) = 0
  IN  /\ board' = [r \in Idx |-> [c \in Idx |->
                     [board[r][c] EXCEPT !.isNewlyPlaced = FALSE]]]
      /\ players' = newPlayers
      /\ currentPlayerIndex' = Other(currentPlayerIndex)
      /\ tileBag' = d.remaining
      /\ turnNumber' = turnNumber + 1
      /\ placedThisTurn' = <<>>
      /\ isFirstMove' = FALSE
      /\ gameOver' = isGameOver
      /\ winner' = IF isGameOver THEN winnerOf(newPlayers) ELSE null
      /\ gamePhase' = IF isGameOver THEN "gameOver" ELSE gamePhase
      /\ rackRevealState' = [activeRack |-> currentPlayerIndex, readyPending |-> TRUE]

\* the state update of a play that counts, worth `score`
acceptPlay(score) ==
  LET d == drawTiles(tileBag, tilesToDraw)
      newPlayers == [players EXCEPT
                       ![currentPlayerIndex].score = @ + score,
                       ![currentPlayerIndex].rack = @ \o d.drawn]
      isGameOver == Len(newPlayers[currentPlayerIndex].rack) = 0
                    /\ Len(d.remaining) = 0
  IN  /\ board' = [r \in Idx |-> [c \in Idx |->
                     [board[r][c] EXCEPT !.isNewlyPlaced = FALSE]]]
      /\ players' = newPlayers
      /\ currentPlayerIndex' = Other(currentPlayerIndex)
      /\ tileBag' = d.remaining
      /\ turnNumber' = turnNumber + 1
      /\ placedThisTurn' = <<>>
      /\ isFirstMove' = FALSE
      /\ gameOver' = isGameOver
      /\ winner' = IF isGameOver THEN winnerOf(newPlayers) ELSE null
      /\ gamePhase' = IF isGameOver THEN "gameOver" ELSE gamePhase
      /\ rackRevealState' = [activeRack |-> currentPlayerIndex, readyPending |-> TRUE]

SubmitEnabled ==
  /\ CanClick
  /\ StillPlaying
  /\ placedThisTurn /= <<>>
  /\ ~gameOver

\* handleSubmitWord, first early return
submitNotReady ==
  /\ SubmitEnabled
  /\ gameMode /= "freeplay" /\ ~dictionaryLoaded
  /\ message' = Msg("info")
  /\ UNCHANGED <<gameVars, gamePhase, settingVars, rackRevealState, dragVars,
                 exchangeVars, dictVars, gameMessage>>
  /\ Tick

SubmitChecked ==
  /\ SubmitEnabled
  /\ ~(gameMode /= "freeplay" /\ ~dictionaryLoaded)

\* handleSubmitWord, free play branch
submitFreePlay ==
  /\ SubmitChecked
  /\ ~submitResult.isValid
  /\ freePlayAccepts(submitResult)
  /\ TurnBudget
  /\ acceptPlay(freePlayScore)
  /\ gameMessage' = Msg("success")
  /\ UNCHANGED <<settingVars, dragVars, exchangeVars, dictVars, message>>
  /\ Tick

\* handleSubmitWord, expert branch: the turn is lost
submitForfeit ==
  /\ SubmitChecked
  /\ ~submitResult.isValid
  /\ ~freePlayAccepts(submitResult)
  /\ turnLost(submitResult)
  /\ TurnBudget
  /\ gameMessage' = Msg("error")
  /\ board' = boardWithout(board, placedThisTurn)
  /\ players' = [players EXCEPT ![currentPlayerIndex].rack =
                   @ \o tilesReturned(placedThisTurn)]
  /\ currentPlayerIndex' = Other(currentPlayerIndex)
  /\ placedThisTurn' = <<>>
  /\ turnNumber' = turnNumber + 1
  /\ rackRevealState' = [activeRack |-> currentPlayerIndex, readyPending |-> TRUE]
  /\ UNCHANGED <<tileBag, isFirstMove, gameOver, winner, gamePhase, settingVars,
                 dragVars, exchangeVars, dictVars, message>>
  /\ Tick

\* handleSubmitWord, any other invalid result: only the message changes
submitRejected ==
  /\ SubmitChecked
  /\ ~submitResult.isValid
  /\ ~freePlayAccepts(submitResult)
  /\ ~turnLost(submitResult)
  /\ gameMessage' = Msg("error")
  /\ UNCHANGED <<gameVars, gamePhase, settingVars, rackRevealState, dragVars,
                 exchangeVars, dictVars, message>>
  /\ Tick

\* handleSubmitWord, valid play
submitValid ==
  /\ SubmitChecked
  /\ submitResult.isValid
  /\ TurnBudget
  /\ acceptPlay(submitResult.totalScore)
  /\ gameMessage' = Msg("success")
  /\ UNCHANGED <<settingVars, dragVars, exchangeVars, dictVars, message>>
  /\ Tick

\* handleSubmitWord, whichever way it goes
handleSubmitWord ==
  submitNotReady \/ submitFreePlay \/ submitForfeit \/ submitRejected \/ submitValid

(***************************************************************************)
(* Pass.                                                                   *)
(***************************************************************************)
\* a cell is flagged newly placed and placedThisTurn has no entry for it; the
\* pass of a turn in such a state is followed past the horizon of StillPlaying
Untracked ==
  \E cell \in DropCells :
    /\ board[cell[1]][cell[2]].isNewlyPlaced
    /\ \A i \in 1..Len(placedThisTurn) :
         ~(placedThisTurn[i].row = cell[1] /\ placedThisTurn[i].col = cell[2])

PassEnabled ==
  /\ CanClick
  /\ StillPlaying \/ Untracked
  /\ ~gameOver
  /\ ~(hidePlayerTiles /\ rackRevealState.readyPending)
  /\ TurnBudget

\* tiles are placed: start the animation, the callback does the rest
passWithTiles ==
  /\ PassEnabled
  /\ Len(placedThisTurn) > 0
  /\ SetTimer("pass", currentPlayerIndex)
  /\ gameMessage' = Msg("info")
  /\ UNCHANGED <<gameVars, gamePhase, settingVars, rackRevealState, dragVars,
                 exchangeVars, dictVars, message>>

\* the timer callback of handlePass; `player` is currentPlayerBeforeSwitch
passCallback ==
  /\ timers /= <<>>
  /\ Head(timers).kind = "pass"
  /\ LET currentPlayerBeforeSwitch == Head(timers).player
     IN  /\ board' = boardWithout(board, placedThisTurn)
         /\ players' = [players EXCEPT ![currentPlayerBeforeSwitch].rack =
                          @ \o tilesReturned(placedThisTurn)]
         /\ placedThisTurn' = <<>>
         /\ currentPlayerIndex' = Other(currentPlayerBeforeSwitch)
         /\ turnNumber' = turnNumber + 1
         /\ rackRevealState' = [activeRack |-> currentPlayerBeforeSwitch,
                                readyPending |-> TRUE]
  /\ timers' = Tail(timers)
  /\ UNCHANGED timersSet
  /\ message' = NoMessage
  /\ UNCHANGED <<tileBag, isFirstMove, gameOver, winner, gamePhase, settingVars,
                 dragVars, exchangeVars, dictVars, gameMessage>>

\* mutation: a pass ends the first move
passEndsFirstMove ==
  /\ PassEnabled
  /\ Len(placedThisTurn) = 0
  /\ currentPlayerIndex' = Other(currentPlayerIndex)
  /\ turnNumber' = turnNumber + 1
  /\ isFirstMove' = FALSE
  /\ rackRevealState' = [activeRack |-> currentPlayerIndex, readyPending |-> TRUE]
  /\ gameMessage' = Msg("info")
  /\ UNCHANGED <<board, players, tileBag, placedThisTurn, gameOver,
                 winner, gamePhase, settingVars, dragVars, exchangeVars, dictVars,
                 message>>
  /\ Tick

\* nothing placed: switch turns at once
passNoTiles ==
  /\ PassEnabled
  /\ Len(placedThisTurn) = 0
  /\ currentPlayerIndex' = Other(currentPlayerIndex)
  /\ turnNumber' = turnNumber + 1
  /\ rackRevealState' = [activeRack |-> currentPlayerIndex, readyPending |-> TRUE]
  /\ gameMessage' = Msg("info")
  /\ UNCHANGED <<board, players, tileBag, placedThisTurn, isFirstMove, gameOver,
                 winner, gamePhase, settingVars, dragVars, exchangeVars, dictVars,
                 message>>
  /\ Tick

(***************************************************************************)
(* Exchange.                                                               *)
(***************************************************************************)
\* the Exchange Tiles / Cancel button of the current player's rack
handleToggleExchangeMode ==
  /\ CanClick
  /\ StillPlaying
  /\ ~showReadyButton(currentPlayerIndex)
  /\ exchangeMode \/ (Len(tileBag) >= 1 /\ Len(placedThisTurn) = 0)
  /\ exchangeMode' = ~exchangeMode
  /\ selectedForExchange' = {}
  /\ UNCHANGED <<gameVars, gamePhase, settingVars, rackRevealState, dragVars,
                 dictVars, message, gameMessage>>
  /\ Tick

\* a click on a tile of the current player's rack in exchange mode
handleToggleTileSelection(tile) ==
  /\ CanClick
  /\ ~showReadyButton(currentPlayerIndex)
  /\ exchangeMode
  /\ tile \in Range(rackOf(currentPlayerIndex))
  /\ selectedForExchange' = IF tile.id \in selectedForExchange
                            THEN selectedForExchange \ {tile.id}
                            ELSE selectedForExchange \cup {tile.id}
  /\ UNCHANGED <<gameVars, gamePhase, settingVars, rackRevealState, dragVars,
                 exchangeMode, dictVars, message, gameMessage>>
  /\ Tick

ConfirmEnabled ==
  /\ CanClick
  /\ ~showReadyButton(currentPlayerIndex)
  /\ exchangeMode
  /\ selectedForExchange /= {}

\* mutation: only an empty bag turns an exchange down
notEnoughTilesEmptyBag == Len(tileBag) = 0

\* gameState.tileBag.length < selectedForExchange.size
notEnoughTiles == Len(tileBag) < Cardinality(selectedForExchange)

\* handleConfirmExchange, the bag is too small
exchangeRejected ==
  /\ ConfirmEnabled
  /\ notEnoughTiles
  /\ message' = Msg("error")
  /\ UNCHANGED <<gameVars, gamePhase, settingVars, rackRevealState, dragVars,
                 exchangeVars, dictVars, gameMessage>>
  /\ Tick

\* handleConfirmExchange, the exchange itself; rnd drives the in-place shuffle
exchangeTiles(rnd) ==
  LET rack == rackOf(currentPlayerIndex)
      tilesToExchange == SelectSeq(rack, LAMBDA t : t.id \in selectedForExchange)
      tilesToKeep == SelectSeq(rack, LAMBDA t : t.id \notin selectedForExchange)
      d == drawTiles(tileBag, Len(tilesToExchange))
      newBag == d.remaining \o tilesToExchange
  IN  /\ tileBag' = FisherYates(newBag, Len(newBag) - 1, rnd)
      /\ players' = [players EXCEPT ![currentPlayerIndex].rack = tilesToKeep \o d.drawn]
      /\ currentPlayerIndex' = Other(currentPlayerIndex)
      /\ turnNumber' = turnNumber + 1
      /\ rackRevealState' = [activeRack |-> currentPlayerIndex, readyPending |-> TRUE]

exchangeConfirmed ==
  /\ ConfirmEnabled
  /\ ~notEnoughTiles
  /\ TurnBudget
  /\ \E rnd \in RandomSources(Len(tileBag)) : exchangeTiles(rnd)
  /\ exchangeMode' = FALSE
  /\ selectedForExchange' = {}
  /\ gameMessage' = Msg("info")
  /\ UNCHANGED <<board, placedThisTurn, isFirstMove, gameOver, winner, gamePhase,
                 settingVars, dragVars, dictVars, message>>
  /\ Tick

(***************************************************************************)
(* Starting a game, the ready button, the dictionary.                      *)
(***************************************************************************)
\* the New Game button of the header opens the start modal
handleNewGame ==
  /\ CanClick
  /\ gamePhase' = "start"
  /\ UNCHANGED <<gameVars, settingVars, rackRevealState, dragVars, exchangeVars,
                 dictVars, message, gameMessage>>
  /\ Tick

\* the close button of the start modal, shown while a game is in progress
handleCloseModal ==
  /\ gamePhase = "start"
  /\ blankSelection = NoSelection
  /\ ~gameOver
  /\ gamePhase' = "playing"
  /\ UNCHANGED <<gameVars, settingVars, rackRevealState, dragVars, exchangeVars,
                 dictVars, message, gameMessage>>
  /\ Tick

\* Start Game, with the mode and the hide-tiles option chosen in the modal
handleStartGame(mode, hide, rnd) ==
  /\ gamePhase = "start"
  /\ blankSelection = NoSelection
  /\ gameMode' = mode
  /\ hidePlayerTiles' = hide
  /\ SetGame(initializeGame(rnd))
  /\ gamePhase' = "playing"
  /\ ClearDrag
  /\ exchangeMode' = FALSE
  /\ selectedForExchange' = {}
  /\ message' = NoMessage
  /\ rackRevealState' = IF hide THEN [activeRack |-> null, readyPending |-> TRUE]
                        ELSE [activeRack |-> 0, readyPending |-> FALSE]
  /\ UNCHANGED <<blankSelection, dictVars, gameMessage>>
  /\ Tick

\* the "<player> ready!" button over the current player's rack
handleReady ==
  /\ CanClick
  /\ showReadyButton(currentPlayerIndex)
  /\ rackRevealState' = [activeRack |-> currentPlayerIndex, readyPending |-> FALSE]
  /\ UNCHANGED <<gameVars, gamePhase, settingVars, dragVars, exchangeVars, dictVars,
                 message, gameMessage>>
  /\ Tick

\* loadDictionary resolves: the word list, or the empty set when the fetch fails
dictionaryLoads(words) ==
  /\ ~dictionaryLoaded
  /\ dictionary' = [loaded |-> TRUE, words |-> words]
  /\ dictionaryLoaded' = TRUE
  /\ UNCHANGED <<gameVars, gamePhase, settingVars, rackRevealState, dragVars,
                 exchangeVars, message, gameMessage, timers, timersSet>>

(***************************************************************************)
(* Specification.                                                          *)
(***************************************************************************)
Next ==
  \/ \E p \in PlayerIdx : \E i \in 1..Len(rackOf(p)) : handleDragStart(rackOf(p)[i])
  \/ \E cell \in DropCells : handleBoardTileDragStart(cell[1], cell[2])
  \/ handleDragEnd
  \/ \E cell \in DropCells : handleDropTile(cell[1], cell[2])
  \/ handleDropToRack
  \/ \E letter \in BlankLetters : handleBlankLetterSelect(letter)
  \/ handleRecallTiles
  \/ recallCallback
  \/ submitNotReady
  \/ submitFreePlay
  \/ submitForfeit
  \/ submitRejected
  \/ submitValid
  \/ passWithTiles
  \/ passCallback
  \/ passNoTiles
  \/ handleToggleExchangeMode
  \/ \E p \in PlayerIdx : \E i \in 1..Len(rackOf(p)) : handleToggleTileSelection(rackOf(p)[i])
  \/ exchangeRejected
  \/ exchangeConfirmed
  \/ handleNewGame
  \/ handleCloseModal
  \/ \E mode \in GameModes, hide \in {FALSE}, rnd \in RandomSources(TotalTiles - 1) :
       handleStartGame(mode, hide, rnd)
  \/ \E words \in {DictWords, {}} : dictionaryLoads(words)

Spec == Init /\ [][Next]_vars

(***************************************************************************)
(* Properties.                                                             *)
(***************************************************************************)
TilesOnBoard == Cardinality({ cell \in Idx \X Idx : hasTile(board, cell[1], cell[2]) })

\* C1: in every reachable state the tiles of rack 0, rack 1, the bag and the
\* board add up to the number of tiles createTileBag made.
C1_Conservation ==
  Len(rackOf(0)) + Len(rackOf(1)) + Len(tileBag) + TilesOnBoard = TotalTiles

\* a submit that was accepted: the valid play or the free play branch
AcceptedSubmit == submitValid \/ submitFreePlay

\* what the accepted move is worth: the validator's total, or in the free
\* play branch the face values of the tiles placed
MoveScore ==
  IF submitResult.isValid THEN submitResult.totalScore
  ELSE SumSeq([i \in 1..Len(placedThisTurn) |-> placedThisTurn[i].tile.points])

\* C2: an accepted submit adds the move's score to the mover's score, empties
\* placedThisTurn, leaves no cell flagged newly placed, keeps every tile on the
\* board, moves min(tiles placed, bag size) tiles from the front of the bag to
\* the end of the mover's rack (a full refill when the rack held the placed
\* tiles and the bag has enough), and clears isFirstMove.
C2_AcceptedSubmit ==
  [][AcceptedSubmit =>
       LET mover == currentPlayerIndex
           n == Len(placedThisTurn)
           k == IF n < Len(tileBag) THEN n ELSE Len(tileBag)
       IN  /\ players'[mover].score = players[mover].score + MoveScore
           /\ placedThisTurn' = <<>>
           /\ \A r \in Idx, c \in Idx :
                /\ ~board'[r][c].isNewlyPlaced
                /\ board'[r][c].tile = board[r][c].tile
           /\ \A i \in 1..n :
                board'[placedThisTurn[i].row][placedThisTurn[i].col].tile /= NoTile
           /\ players'[mover].rack =
                players[mover].rack \o [i \in 1..k |-> tileBag[i]]
           /\ tileBag' = [i \in 1..(Len(tileBag) - k) |-> tileBag[k + i]]
           /\ (Len(players[mover].rack) + n = RackSize /\ Len(tileBag) >= n
                 => Len(players'[mover].rack) = RackSize)
           /\ isFirstMove' = FALSE]_vars

\* an accepted first move after which the bag could not refill the rack
C2_Witness ==
  /\ gameMessage = Msg("success")
  /\ turnNumber = 2 /\ ~isFirstMove /\ placedThisTurn = <<>>
  /\ tileBag = <<>> /\ Len(rackOf(0)) = RackSize - 1
  /\ players[0].score > 0

\* C3: an accepted submit, in any mode, makes the other player current and
\* adds exactly 1 to the turn number.
C3_AcceptedSubmitAdvances ==
  [][AcceptedSubmit =>
       /\ currentPlayerIndex' = 1 - currentPlayerIndex
       /\ turnNumber' = turnNumber + 1]_vars

\* the second player has just had a move accepted in free play
C3_Witness ==
  /\ gameMessage = Msg("success")
  /\ gameMode = "freeplay"
  /\ turnNumber = 3 /\ currentPlayerIndex = 0
  /\ players[1].score > 0

\* the validator turns the placement down
Rejected == ~submitResult.isValid
\* ... because a word it forms is not in the dictionary
WordRejected ==
  Rejected /\ submitResult.errors = <<"Cannot form valid words with this placement">>

\* C4: in standard mode a submit the validator turns down (placement
\* structure, no word, or a word not in the dictionary) changes nothing of
\* the game state (board and its newly-placed flags, placedThisTurn, racks,
\* bag, scores, current player, turn number, isFirstMove) and shows an error.
C4_StandardRejectBlocks ==
  [][(handleSubmitWord /\ gameMode = "standard" /\ dictionaryLoaded /\ Rejected) =>
       /\ UNCHANGED <<board, placedThisTurn, players, tileBag, currentPlayerIndex,
                      turnNumber, isFirstMove>>
       /\ gameMessage'.type = "error"]_vars

\* standard mode, a word not in the dictionary is on the board and the
\* submit was turned down: the tiles are still placed, the turn has not moved
C4_Witness ==
  /\ gameMode = "standard" /\ dictionaryLoaded
  /\ gameMessage = Msg("error")
  /\ Len(placedThisTurn) = 2 /\ WordRejected
  /\ turnNumber = 1 /\ timersSet = 0

\* C5: in expert mode a submit turned down for its structure (or for forming
\* no word) changes nothing of the game state; one turned down for a word not
\* in the dictionary returns every placed tile to the end of the mover's own
\* rack, blanks with their letter reset, empties those cells, leaves the
\* scores, makes the opponent current and adds 1 to the turn number.
C5_ExpertForfeit ==
  [][(handleSubmitWord /\ gameMode = "expert" /\ dictionaryLoaded /\ Rejected) =>
       IF WordRejected
       THEN LET mover == currentPlayerIndex
            IN  /\ players'[mover].rack =
                     players[mover].rack \o
                       [i \in 1..Len(placedThisTurn) |->
                          IF placedThisTurn[i].tile.isBlank
                          THEN [placedThisTurn[i].tile EXCEPT !.letter = ""]
                          ELSE placedThisTurn[i].tile]
                /\ players'[1 - mover] = players[1 - mover]
                /\ players'[mover].score = players[mover].score
                /\ \A r \in Idx, c \in Idx :
                     board'[r][c] =
                       IF \E i \in 1..Len(placedThisTurn) :
                            placedThisTurn[i].row = r /\ placedThisTurn[i].col = c
                       THEN EmptyCell ELSE board[r][c]
                /\ placedThisTurn' = <<>>
                /\ currentPlayerIndex' = 1 - mover
                /\ turnNumber' = turnNumber + 1
                /\ UNCHANGED <<tileBag, isFirstMove, gameOver, winner>>
       ELSE UNCHANGED <<board, placedThisTurn, players, tileBag, currentPlayerIndex,
                        turnNumber, isFirstMove>>]_vars

\* expert mode, no timer ever set: the second player has forfeited a turn in
\* which the blank was on the board, and holds it again without a letter
C5_Witness ==
  /\ gameMode = "expert" /\ timersSet = 0
  /\ gameMessage = Msg("error")
  /\ turnNumber = 3 /\ currentPlayerIndex = 0
  /\ placedThisTurn = <<>>
  /\ \E i \in 1..Len(rackOf(1)) : rackOf(1)[i].isBlank /\ rackOf(1)[i].letter = ""
  /\ Len(rackOf(1)) = RackSize
  /\ TilesOnBoard = 0

\* the placement passes every check of the validator but, possibly, the
\* dictionary
StructurallyValid == submitResult.isValid \/ WordRejected

\* the face values of the tiles placed this turn
FaceValues == SumSeq([i \in 1..Len(placedThisTurn) |-> placedThisTurn[i].tile.points])

\* C6: in free play every submit of a structurally valid placement is
\* accepted and adds to the mover's score the face values of the tiles placed
\* and nothing else, whatever the dictionary holds and loaded or not.
C6_FreePlayFaceValues ==
  [][(handleSubmitWord /\ gameMode = "freeplay" /\ StructurallyValid) =>
       /\ players'[currentPlayerIndex].score =
            players[currentPlayerIndex].score + FaceValues
       /\ placedThisTurn' = <<>>
       /\ turnNumber' = turnNumber + 1]_vars

C8_WinnerIffGameOver ==
  /\ gameOver <=> winner \in {0, 1}
  /\ ~gameOver => winner = null

\* the game is over and the second player is recorded as its winner
C8_Witness == gameOver /\ winner = 1 /\ players[1].score > players[0].score

\* the step is Start Game
StartsGame ==
  \E mode \in GameModes, rnd \in RandomSources(TotalTiles - 1) :
    handleStartGame(mode, FALSE, rnd)

\* C9: once the game is over it stays over until a game is started, and no
\* step before that changes the board, the racks, the scores, the bag, the
\* current player, the turn number or the winner.
C9_GameOverTerminal ==
  [][(gameOver /\ ~StartsGame) =>
       /\ gameOver'
       /\ UNCHANGED <<board, players, tileBag, currentPlayerIndex, turnNumber,
                      winner>>]_vars

\* C10: when a pass takes effect, every tile the passing player had placed
\* when passing is in that player's rack, blanks with their letter reset, the
\* cells they were on are empty, placedThisTurn is empty, the scores are as
\* they were, the other player is current and the turn number is 1 higher.
C10_PassIsRecallThenAdvance ==
  [][(passCallback \/ passNoTiles) =>
       LET passer == IF passCallback THEN Head(timers).player ELSE currentPlayerIndex
           placed == IF passCallback THEN Head(timers).tilesToRecall ELSE <<>>
       IN  /\ \A i \in 1..Len(placed) :
                /\ \E k \in 1..Len(players'[passer].rack) :
                     players'[passer].rack[k] =
                       (IF placed[i].tile.isBlank
                        THEN [placed[i].tile EXCEPT !.letter = ""]
                        ELSE placed[i].tile)
                /\ board'[placed[i].row][placed[i].col].tile = NoTile
           /\ placedThisTurn' = <<>>
           /\ players'[0].score = players[0].score
           /\ players'[1].score = players[1].score
           /\ currentPlayerIndex' = 1 - passer
           /\ turnNumber' = turnNumber + 1]_vars

\* the tiles, blanks without their letter, that sit on the cells of `placed`
backInRack(placed, rack) ==
  \A i \in 1..Len(placed) : resetBlank(placed[i].tile) \in Range(rack)

\* C11: when a recall takes effect, every tile that was placed when Recall
\* was clicked is in the current player's rack, blanks without their letter,
\* the cells they were on are empty and unflagged, and placedThisTurn is empty.
C11_RecallRestores ==
  [][recallCallback =>
       LET placed == Head(timers).tilesToRecall
       IN  /\ backInRack(placed, players'[currentPlayerIndex].rack)
           /\ \A i \in 1..Len(placed) :
                board'[placed[i].row][placed[i].col] = EmptyCell
           /\ placedThisTurn' = <<>>]_vars

\* C12: no submit is accepted while a recall or a pass that recalls tiles has
\* been invoked and has not taken effect yet.
C12_NoRecallWindow ==
  [][AcceptedSubmit => timers = <<>>]_vars

\* the cells that hold a tile (tiles only ever land on DropCells)
occupiedCells == { cell \in DropCells : hasTile(board, cell[1], cell[2]) }
\* no tile lies on two of them
NoTileOnTwoCells ==
  \A c1 \in occupiedCells, c2 \in occupiedCells :
    board[c1[1]][c1[2]].tile.id = board[c2[1]][c2[2]].tile.id => c1 = c2

entriesAt(cell) ==
  { i \in 1..Len(placedThisTurn) :
      placedThisTurn[i].row = cell[1] /\ placedThisTurn[i].col = cell[2] }

\* C14: every entry of placedThisTurn names a cell that holds the entry's
\* tile and is flagged newly placed, and every cell flagged newly placed has
\* exactly one entry.
C14_PlacedMatchesBoard ==
  /\ \A i \in 1..Len(placedThisTurn) :
       LET q == placedThisTurn[i]
       IN  board[q.row][q.col].tile = q.tile /\ board[q.row][q.col].isNewlyPlaced
  /\ \A cell \in DropCells :
       board[cell[1]][cell[2]].isNewlyPlaced => Cardinality(entriesAt(cell)) = 1

\* C15: whenever the current player changes, placedThisTurn is empty and no
\* cell is flagged newly placed: nothing placed in one player's turn is left
\* for the other player's turn.
C15_TurnStartsClean ==
  [][currentPlayerIndex' /= currentPlayerIndex =>
       /\ placedThisTurn' = <<>>
       /\ \A cell \in DropCells : ~board'[cell[1]][cell[2]].isNewlyPlaced]_vars

\* C16: an exchange is carried out only with nothing placed this turn and a
\* bag of at least as many tiles as were chosen; the chosen tiles leave the
\* current player's rack, as many tiles from the front of the bag join it,
\* the chosen tiles go to the bag (rack and bag keep their sizes), board and
\* scores stay, the other player becomes current and the turn number grows by 1.
C16_Exchange ==
  [][exchangeConfirmed =>
       LET p == currentPlayerIndex
           rack == players[p].rack
           n == Cardinality(selectedForExchange)
           chosen == SelectSeq(rack, LAMBDA t : t.id \in selectedForExchange)
           kept == SelectSeq(rack, LAMBDA t : t.id \notin selectedForExchange)
       IN  /\ placedThisTurn = <<>>
           /\ Len(tileBag) >= n
           /\ Len(chosen) = n
           /\ players'[p].rack = kept \o SubSeq(tileBag, 1, n)
           /\ Range(tileBag') = Range(SubSeq(tileBag, n + 1, Len(tileBag))) \cup Range(chosen)
           /\ Len(tileBag') = Len(tileBag)
           /\ Len(players'[p].rack) = Len(rack)
           /\ players'[1 - p] = players[1 - p]
           /\ players'[p].score = players[p].score
           /\ board' = board
           /\ currentPlayerIndex' = 1 - p
           /\ turnNumber' = turnNumber + 1]_vars

\* the Confirm button of the exchange was clicked with tiles selected
handleConfirmExchange == exchangeRejected \/ exchangeConfirmed

\* C17: an exchange confirmed with fewer tiles in the bag than tiles chosen
\* changes nothing of the game (racks, bag, board, scores, current player,
\* turn number) and shows an error message.
C17_ExchangeNeedsBag ==
  [][(handleConfirmExchange /\ Len(tileBag) < Cardinality(selectedForExchange)) =>
       /\ UNCHANGED <<players, tileBag, board, currentPlayerIndex, turnNumber,
                      placedThisTurn>>
       /\ message'.type = "error"]_vars

\* two tiles are chosen, the bag holds one, and the exchange was turned down
C17_Witness ==
  /\ message = Msg("error")
  /\ exchangeMode
  /\ Cardinality(selectedForExchange) = 2 /\ Len(tileBag) = 1
  /\ turnNumber = 1 /\ Len(rackOf(0)) = RackSize

(***************************************************************************)
(* The placement validator on its own: a turn in progress with a placement *)
(* drawn from a bounded set of boards, and the Submit button applied to it. *)
(***************************************************************************)
\* the cells the placements are drawn from: the block around the centre
PoolRadius == 1
Pool == ((CENTER - PoolRadius)..(CENTER + PoolRadius))
          \X ((CENTER - PoolRadius)..(CENTER + PoolRadius))
\* at most this many tiles are placed in the turn
MaxPlaced == 2

\* boards of committed tiles that earlier turns can have left: none (the
\* first move), or words through the centre
CommittedBoards ==
  { {},
    { <<7, 7>>, <<7, 8>> },
    { <<6, 7>>, <<7, 7>>, <<8, 7>> },
    { <<7, 6>>, <<7, 7>>, <<6, 7>> },
    { <<7, 7>>, <<7, 8>>, <<8, 8>> } }

PlacementLetters == {"A", "B"}

\* a tile of the bag: the letter and its points (A 1, B 2 as in tilesData)
letterTile(id, letter) ==
  [id |-> id, letter |-> letter, points |-> IF letter = "A" THEN 1 ELSE 2,
   isBlank |-> FALSE]

\* the board with the committed cells K and the newly placed cells P
placementBoard(K, P, letterAt) ==
  [r \in Idx |-> [c \in Idx |->
     IF <<r, c>> \in K \cup P
     THEN [tile |-> letterTile(100 + r * BOARD_SIZE + c, letterAt[<<r, c>>]),
           isNewlyPlaced |-> <<r, c>> \in P]
     ELSE EmptyCell]]

\* the orders in which the cells of P can have been placed
placementOrders(P) ==
  { order \in [1..Cardinality(P) -> P] :
      \A i, j \in 1..Cardinality(P) : order[i] = order[j] => i = j }

\* a game in standard mode, dictionary loaded, player 0 to move with the
\* tiles of P on the board and the rest of the rack in hand
InitPlacement ==
  /\ \E K \in CommittedBoards :
       \E P \in SUBSET (Pool \ K) :
         /\ Cardinality(P) \in 1..MaxPlaced
         /\ \E letterAt \in [K \cup P -> PlacementLetters] :
              \E order \in placementOrders(P) :
                /\ board = placementBoard(K, P, letterAt)
                /\ placedThisTurn =
                     [i \in 1..Cardinality(P) |->
                        [row |-> order[i][1], col |-> order[i][2],
                         tile |-> board[order[i][1]][order[i][2]].tile]]
                /\ isFirstMove = (K = {})
                /\ turnNumber = IF K = {} THEN 1 ELSE 2
                /\ players =
                     [q \in PlayerIdx |->
                        [score |-> 0,
                         rack |-> IF q = 0
                                  THEN [i \in 1..(RackSize - Cardinality(P)) |->
                                          letterTile(10 + i, "A")]
                                  ELSE [i \in 1..RackSize |-> letterTile(20 + i, "B")]]]
  /\ tileBag = <<letterTile(30, "A"), letterTile(31, "B"), letterTile(32, "A")>>
  /\ currentPlayerIndex = 0
  /\ gameOver = FALSE
  /\ winner = null
  /\ gamePhase = "playing"
  /\ gameMode = "standard"
  /\ hidePlayerTiles = FALSE
  /\ rackRevealState = [activeRack |-> 0, readyPending |-> FALSE]
  /\ draggingTile = NoTile
  /\ dragSourceCell = NoCell
  /\ blankSelection = NoSelection
  /\ exchangeMode = FALSE
  /\ selectedForExchange = {}
  /\ dictionaryLoaded = TRUE
  /\ dictionary = [loaded |-> TRUE, words |-> DictWords]
  /\ message = NoMessage
  /\ gameMessage = NoMessage
  /\ timers = <<>>
  /\ timersSet = 0

NextPlacement == submitRejected \/ submitValid

SpecPlacement == InitPlacement /\ [][NextPlacement]_vars

(***************************************************************************)
(* The placement rules, stated on the cells of the placement.              *)
(***************************************************************************)
\* the positions handed to the validator
Placed == { <<placedThisTurn[i].row, placedThisTurn[i].col>> : i \in 1..Len(placedThisTurn) }
OneRow == \A p \in Placed, q \in Placed : p[1] = q[1]
OneColumn == \A p \in Placed, q \in Placed : p[2] = q[2]
\* every cell between two placed positions of a row or of a column holds a tile
between(x, y) == IF x <= y THEN x..y ELSE y..x
NoGaps ==
  \A p \in Placed, q \in Placed :
    /\ p[1] = q[1] => \A c \in between(p[2], q[2]) : board[p[1]][c].tile /= NoTile
    /\ p[2] = q[2] => \A r \in between(p[1], q[1]) : board[r][p[2]].tile /= NoTile
ThroughCentre == <<7, 7>> \in Placed
\* the four orthogonal neighbours of a cell that are on the board
neighbours(p) ==
  { n \in { <<p[1] - 1, p[2]>>, <<p[1] + 1, p[2]>>, <<p[1], p[2] - 1>>, <<p[1], p[2] + 1>> } :
      n[1] \in 0..14 /\ n[2] \in 0..14 }
TouchesCommitted ==
  \E p \in Placed : \E n \in neighbours(p) :
    board[n[1]][n[2]].tile /= NoTile /\ n \notin Placed
StructureRules ==
  /\ Placed /= {}
  /\ OneRow \/ OneColumn
  /\ NoGaps
  /\ isFirstMove => ThroughCentre
  /\ ~isFirstMove => TouchesCommitted

\* the validator found no fault with the structure: it accepted the
\* placement, or turned it down for the words it forms
StructureAccepted ==
  \/ submitResult.isValid
  \/ submitResult.errors \in { <<"Must form at least one word">>,
                               <<"Cannot form valid words with this placement">> }

\* C18: the validator accepts the structure of a placement exactly when a
\* tile is placed, the placed positions share a row or a column, no cell
\* between them is empty, a first move covers (7,7) and a later move has a
\* placed position next to a tile that was not placed this turn; a diagonal
\* placement gets the single row or column error, a first move in one line
\* without gaps that misses (7,7) the centre square error.
C18_StructureRules ==
  /\ StructureAccepted <=> StructureRules
  /\ (Placed /= {} /\ ~OneRow /\ ~OneColumn)
       => submitResult.errors = <<"Tiles must be placed in a single row or column">>
  /\ (Placed /= {} /\ (OneRow \/ OneColumn) /\ NoGaps /\ isFirstMove /\ ~ThroughCentre)
       => submitResult.errors = <<"First word must go through the center square">>

\* a later move of two tiles in one row with a committed tile between them
\* was submitted and not turned down for its structure
C18_Witness ==
  /\ ~isFirstMove /\ Cardinality(Placed) = 2 /\ OneRow
  /\ \E p \in Placed, q \in Placed : q[2] = p[2] + 2
  /\ StructureAccepted
  /\ gameMessage = Msg("error")

\* the error of the first rule, in the order of the rules, that the
\* placement breaks
PrimaryError ==
  IF Placed = {} THEN "No tiles placed"
  ELSE IF ~(OneRow \/ OneColumn) THEN "Tiles must be placed in a single row or column"
  ELSE IF ~NoGaps THEN "Tiles must be placed without gaps"
  ELSE IF isFirstMove /\ ~ThroughCentre THEN "First word must go through the center square"
  ELSE "Word must connect to existing tiles"

\* the number of the five rules that the placement breaks
RulesBroken ==
  Cardinality({ k \in 1..5 :
    \/ k = 1 /\ Placed = {}
    \/ k = 2 /\ ~(OneRow \/ OneColumn)
    \/ k = 3 /\ ~NoGaps
    \/ k = 4 /\ isFirstMove /\ ~ThroughCentre
    \/ k = 5 /\ ~isFirstMove /\ ~TouchesCommitted })

\* C19: a placement that breaks the rules is turned down with one error, the
\* error of the first rule it breaks in the order non-empty, single line, no
\* gaps, first move through the centre, connectivity, however many rules it
\* breaks.
C19_PrimaryError ==
  ~StructureRules => submitResult.errors = <<PrimaryError>>

\* a first move of two tiles in one row with an empty cell between them and
\* away from the centre, which breaks two rules, was submitted and turned down
C19_Witness ==
  /\ isFirstMove /\ Cardinality(Placed) = 2 /\ OneRow
  /\ ~NoGaps /\ ~ThroughCentre
  /\ RulesBroken = 2
  /\ submitResult.errors = <<"Tiles must be placed without gaps">>
  /\ gameMessage = Msg("error")

\* the maximal run of occupied cells of the row, and of the column, through p
rowRun(p) ==
  LET cols == { c \in Idx : \A x \in between(c, p[2]) : board[p[1]][x].tile /= NoTile }
  IN  [i \in 1..Cardinality(cols) |-> [row |-> p[1], col |-> lowest(cols) + i - 1]]
colRun(p) ==
  LET rows == { r \in Idx : \A x \in between(r, p[1]) : board[x][p[2]].tile /= NoTile }
  IN  [i \in 1..Cardinality(rows) |-> [row |-> lowest(rows) + i - 1, col |-> p[2]]]
\* the runs of two or more cells that hold a newly placed cell
Runs ==
  { R \in { rowRun(p) : p \in Placed } \cup { colRun(p) : p \in Placed } : Len(R) >= 2 }
RECURSIVE runsScore(_)
runsScore(S) ==
  IF S = {} THEN 0
  ELSE LET R == CHOOSE R \in S : TRUE
       IN  calculateWordScore(board, R, Placed) + runsScore(S \ {R})
\* the placed tile is the first cell of a row run and of a column run that
\* spell the same letters
SameStartSameWord ==
  \E p \in Placed :
    /\ Len(rowRun(p)) >= 2 /\ Len(colRun(p)) >= 2
    /\ rowRun(p)[1] = colRun(p)[1]
    /\ [i \in 1..Len(rowRun(p)) |-> board[rowRun(p)[i].row][rowRun(p)[i].col].tile.letter]
         = [i \in 1..Len(colRun(p)) |-> board[colRun(p)[i].row][colRun(p)[i].col].tile.letter]

tournamentResult == calculateTournamentScore(board, placedPositions, isFirstMove)

\* the placement keeps the five rules and forms no run of two or more cells
NoWordPlacement == StructureRules /\ Runs = {}

\* C21: a placement that keeps the five rules and forms no word of two or
\* more letters is turned down with the error "Must form at least one word"
\* and total score 0 by findWordsFromPlacement and by
\* calculateTournamentScore, and a submit of it, in whichever game mode, shows
\* the error and leaves the game as it is.
C21_NoWordRejected ==
  /\ [](NoWordPlacement =>
          /\ submitResult = Invalid(<<>>, "Must form at least one word")
          /\ tournamentResult = Invalid(<<>>, "Must form at least one word")
          /\ submitResult.totalScore = 0 /\ tournamentResult.totalScore = 0)
  /\ [][(SubmitChecked /\ NoWordPlacement /\ handleSubmitWord) =>
          (gameMessage' = Msg("error") /\ UNCHANGED gameVars)]_vars

\* in free play a single tile on the centre was submitted as the first move
\* and turned down
C21_Witness ==
  /\ gameMode = "freeplay" /\ isFirstMove
  /\ Placed = { <<CENTER, CENTER>> }
  /\ NoWordPlacement
  /\ gameMessage = Msg("error")

\* the cells of word w placed this turn, and the cells that lay there before
newCells(w) == { i \in 1..Len(w.cells) : <<w.cells[i].row, w.cells[i].col>> \in Placed }
oldCells(w) == (1..Len(w.cells)) \ newCells(w)
pointsAt(w, i) == board[w.cells[i].row][w.cells[i].col].tile.points
bonusAt(w, i) == getBonusType(w.cells[i].row, w.cells[i].col)
RECURSIVE ProdSeq(_)
ProdSeq(q) == IF q = <<>> THEN 1 ELSE Head(q) * ProdSeq(Tail(q))
newLetter(w, i) ==
  pointsAt(w, i) * (CASE bonusAt(w, i) = "double-letter" -> 2
                      [] bonusAt(w, i) = "triple-letter" -> 3
                      [] OTHER -> 1)
newFactor(w, i) ==
  CASE bonusAt(w, i) \in {"double-word", "center"} -> 2
    [] bonusAt(w, i) = "triple-word" -> 3
    [] OTHER -> 1
oldPoints(w) ==
  SumSeq([i \in 1..Len(w.cells) |-> IF i \in oldCells(w) THEN pointsAt(w, i) ELSE 0])
newPoints(w) ==
  SumSeq([i \in 1..Len(w.cells) |-> IF i \in newCells(w) THEN newLetter(w, i) ELSE 0])
newTimes(w) ==
  ProdSeq([i \in 1..Len(w.cells) |-> IF i \in newCells(w) THEN newFactor(w, i) ELSE 1])
\* a tile that lay on the board before the turn is on a bonus square of w
oldOnBonus(w) == \E i \in oldCells(w) : bonusAt(w, i) /= "none"

\* C22: in the score of every word, the tiles that lay on the board before
\* the turn count their plain points and multiply nothing, whatever square
\* they lie on; letter and word bonuses come from the cells placed this turn
\* only.
C22_BonusOnlyNewCells ==
  \A k \in 1..Len(submitResult.words) :
    LET w == submitResult.words[k]
    IN  w.score = newTimes(w) * (oldPoints(w) + newPoints(w))

\* a tile placed on (8,7), beside the tile committed on the double-letter
\* square (8,8) and below the committed centre, was submitted and accepted
\* for the plain points of the two words
C22_Witness ==
  /\ gameMessage = Msg("success") /\ placedThisTurn = <<>>
  /\ board[6][7].tile = NoTile
  /\ \A cell \in { <<7, 7>>, <<7, 8>>, <<8, 7>>, <<8, 8>> } :
       board[cell[1]][cell[2]].tile /= NoTile
  /\ players[0].score = board[8][7].tile.points + board[8][8].tile.points
                          + board[7][7].tile.points + board[8][7].tile.points

\* the point value of a tile: a blank counts nothing, whatever its letter
value(t) == IF t.isBlank THEN 0 ELSE t.points
\* the score of the cells `cells` of board b with the cells of `placed` newly
\* placed: the letter values, doubled or tripled on a newly placed letter
\* square, times 2 for every newly placed double-word or centre cell and 3
\* for every newly placed triple-word cell
letterValue(b, cell, placed) ==
  value(b[cell.row][cell.col].tile)
    * (IF <<cell.row, cell.col>> \notin placed THEN 1
       ELSE IF <<cell.row, cell.col>> \in DOUBLE_LETTER THEN 2
       ELSE IF <<cell.row, cell.col>> \in TRIPLE_LETTER THEN 3
       ELSE 1)
wordFactor(cell, placed) ==
  IF <<cell.row, cell.col>> \notin placed THEN 1
  ELSE IF <<cell.row, cell.col>> = <<7, 7>> \/ <<cell.row, cell.col>> \in DOUBLE_WORD THEN 2
  ELSE IF <<cell.row, cell.col>> \in TRIPLE_WORD THEN 3
  ELSE 1
expectedScore(b, cells, placed) ==
  ProdSeq([i \in 1..Len(cells) |-> wordFactor(cells[i], placed)])
    * SumSeq([i \in 1..Len(cells) |-> letterValue(b, cells[i], placed)])

\* C, A (or a blank standing for A) and T placed on (7,6), (7,7), (7,8) of an
\* empty board
catCells == << [row |-> 7, col |-> 6], [row |-> 7, col |-> 7], [row |-> 7, col |-> 8] >>
catBoard(second) ==
  [r \in Idx |-> [c \in Idx |->
     IF r = 7 /\ c = 6
       THEN [tile |-> [id |-> 1, letter |-> "C", points |-> 3, isBlank |-> FALSE],
             isNewlyPlaced |-> TRUE]
     ELSE IF r = 7 /\ c = 7 THEN [tile |-> second, isNewlyPlaced |-> TRUE]
     ELSE IF r = 7 /\ c = 8
       THEN [tile |-> [id |-> 3, letter |-> "T", points |-> 1, isBlank |-> FALSE],
             isNewlyPlaced |-> TRUE]
     ELSE EmptyCell]]
catScore(second) == calculateTournamentScore(catBoard(second), catCells, TRUE).totalScore
CatScores ==
  /\ catScore([id |-> 2, letter |-> "A", points |-> 1, isBlank |-> FALSE]) = 10
  /\ catScore([id |-> 2, letter |-> "A", points |-> 0, isBlank |-> TRUE]) = 8

\* a C and a B placed side by side from cell (r, c) of an empty board, along
\* the row, for every cell of the board that has a right neighbour
pairCells(r, c) == << [row |-> r, col |-> c], [row |-> r, col |-> c + 1] >>
pairBoard(r, c) ==
  [x \in Idx |-> [y \in Idx |->
     IF x = r /\ y = c
       THEN [tile |-> [id |-> 1, letter |-> "C", points |-> 3, isBlank |-> FALSE],
             isNewlyPlaced |-> TRUE]
     ELSE IF x = r /\ y = c + 1
       THEN [tile |-> [id |-> 2, letter |-> "B", points |-> 2, isBlank |-> FALSE],
             isNewlyPlaced |-> TRUE]
     ELSE EmptyCell]]
PairScores ==
  \A r \in Idx : \A c \in 0..(BOARD_SIZE - 2) :
    calculateWordScore(pairBoard(r, c), pairCells(r, c), { <<r, c>>, <<r, c + 1>> })
      = expectedScore(pairBoard(r, c), pairCells(r, c), { <<r, c>>, <<r, c + 1>> })

\* C23: the score of a word is the sum of the point values of its tiles, a
\* value doubled or tripled on a newly placed double- or triple-letter cell
\* and a blank counting 0, times 2 for every newly placed double-word or
\* centre cell and 3 for every newly placed triple-word cell; C-A-T through
\* the centre of an empty board scores 10, and 8 with a blank for the A.
C23_WordScore ==
  /\ \A k \in 1..Len(submitResult.words) :
       submitResult.words[k].score
         = expectedScore(board, submitResult.words[k].cells, Placed)
  /\ CatScores
  /\ PairScores

\* a first move with a blank on the centre and a tile beside it was accepted
\* for twice the points of that tile
C23_Witness ==
  /\ gameMessage = Msg("success") /\ placedThisTurn = <<>>
  /\ board[7][7].tile /= NoTile /\ board[7][7].tile.isBlank
  /\ \E cell \in DropCells \ { <<7, 7>> } :
       /\ board[cell[1]][cell[2]].tile /= NoTile
       /\ \A other \in DropCells \ { <<7, 7>>, cell } :
            board[other[1]][other[2]].tile = NoTile
       /\ \E q \in PlayerIdx :
            /\ players[q].score = 2 * board[cell[1]][cell[2]].tile.points
            /\ players[Other(q)].score = 0

\* n one-point tiles A placed along row 7 from column 4 on an empty board
lineCells(n) == [i \in 1..n |-> [row |-> 7, col |-> 3 + i]]
lineBoard(n) ==
  [r \in Idx |-> [c \in Idx |->
     IF r = 7 /\ c \in 4..(3 + n)
       THEN [tile |-> [id |-> c, letter |-> "A", points |-> 1, isBlank |-> FALSE],
             isNewlyPlaced |-> TRUE]
     ELSE EmptyCell]]
\* a dictionary that holds the word of n letters a
lineDict(n) == [loaded |-> TRUE, words |-> { [i \in 1..n |-> "a"] }]
lineTotal(n) == findWordsFromPlacement(lineBoard(n), lineCells(n), TRUE, lineDict(n)).totalScore
\* four to eight tiles: doubled by the centre, and 50 more for seven of
\* them; the eighth tile lies on the double-letter square (7,11)
LineTotals ==
  \A n \in 4..8 :
    /\ lineTotal(n) = 2 * (IF n = 8 THEN n + 1 ELSE n) + (IF n = 7 THEN 50 ELSE 0)
    /\ calculateTournamentScore(lineBoard(n), lineCells(n), TRUE).totalScore = lineTotal(n)
    /\ findWordsFromPlacement(lineBoard(n), lineCells(n), TRUE, NotLoaded).totalScore = 0

\* the total the spec gives for a result: nothing when it is turned down,
\* else the scores of its words and 50 more for exactly seven tiles placed
expectedTotal(result) ==
  IF ~result.isValid THEN 0
  ELSE SumSeq([i \in 1..Len(result.words) |-> result.words[i].score])
         + (IF Cardinality(Placed) = 7 THEN 50 ELSE 0)

\* C24: the total of a move is the sum of the scores of the words extracted,
\* plus 50 exactly when seven tiles were placed (seven one-point tiles through
\* the centre total 64); a placement that is turned down totals 0.
C24_TotalScore ==
  /\ submitResult.totalScore = expectedTotal(submitResult)
  /\ tournamentResult.totalScore = expectedTotal(tournamentResult)
  /\ LineTotals
  /\ lineTotal(7) = 64

\* A and B placed on (6,7) and (6,8) above the committed A and B of (7,7)
\* and (7,8) were accepted for the three words AB, AA and BB: 5 + 2 + 6
C24_Witness ==
  /\ gameMessage = Msg("success") /\ placedThisTurn = <<>>
  /\ \A cell \in Pool :
       (board[cell[1]][cell[2]].tile /= NoTile)
         <=> cell \in { <<6, 7>>, <<6, 8>>, <<7, 7>>, <<7, 8>> }
  /\ board[6][7].tile.letter = "A" /\ board[6][8].tile.letter = "B"
  /\ board[7][7].tile.letter = "A" /\ board[7][8].tile.letter = "B"
  /\ players[0].score = 13

\* findWordsFromPlacement on the placement of the turn with the dictionary
\* holding the words D
resultWith(D) ==
  findWordsFromPlacement(board, placedPositions, isFirstMove, [loaded |-> TRUE, words |-> D])

\* C25: calculateTournamentScore checks the placement rules only. It gives
\* the error of findWordsFromPlacement for a placement that breaks a rule or
\* forms no word, the words and the total of findWordsFromPlacement whenever
\* that accepts the placement, whatever the dictionary holds, and it accepts
\* with the same words a placement that findWordsFromPlacement turns down
\* for its words.
C25_TournamentScore ==
  /\ (~submitResult.isValid /\ ~isInvalidWordError(submitResult))
       => tournamentResult = submitResult
  /\ \A D \in SUBSET DictWords :
       /\ resultWith(D).isValid => tournamentResult = resultWith(D)
       /\ isInvalidWordError(resultWith(D)) =>
            /\ tournamentResult.isValid
            /\ tournamentResult.words = resultWith(D).words
            /\ tournamentResult.errors = <<>>
  /\ findWordsFromPlacement(board, placedPositions, isFirstMove, NotLoaded).isValid = FALSE

\* a placement was submitted and turned down for a word the dictionary
\* lacks; calculateTournamentScore accepts it with a score
C25_Witness ==
  /\ gameMessage = Msg("error")
  /\ isInvalidWordError(submitResult)
  /\ tournamentResult.isValid /\ tournamentResult.totalScore > 0
  /\ Len(tournamentResult.words) >= 2

\* C26: a submit made while the dictionary is not populated ends in the
\* "not ready" report and never in a word being judged invalid: no
\* placement is found to hold invalid words, no turn is forfeited, and in the
\* modes other than free play the game stays as it is.
C26_NotReady ==
  [][(handleSubmitWord /\ ~dictionary.loaded) =>
       /\ message' = Msg("info") \/ ~isInvalidWordError(submitResult)
       /\ ~submitForfeit
       /\ gameMode /= "freeplay" => UNCHANGED gameVars]_vars

(***************************************************************************)
(* The 600 ms after a click on Pass Turn with tiles on the board.          *)
(***************************************************************************)
\* user events that fit between the click and the callback
RaceSteps == 3
\* a tile set with a bag that can refill a rack
raceTilesData ==
  << [letter |-> "A", points |-> 1, count |-> 3, isBlank |-> FALSE],
     [letter |-> "B", points |-> 2, count |-> 3, isBlank |-> FALSE] >>

\* a new game in which player 0 has put the two tiles of the rack on (7,7)
\* and (7,8) and has just clicked Pass Turn
InitRace ==
  /\ \E rnd \in RandomSources(Len(ExpandTiles(raceTilesData, 0)) - 1) :
       LET bag == shuffleBag(ExpandTiles(raceTilesData, 0), rnd)
           d1 == drawTiles(bag, RackSize)
           d2 == drawTiles(d1.remaining, RackSize)
       IN  /\ board = [createEmptyBoard EXCEPT
                         ![7][7] = [tile |-> d1.drawn[1], isNewlyPlaced |-> TRUE],
                         ![7][8] = [tile |-> d1.drawn[2], isNewlyPlaced |-> TRUE]]
           /\ placedThisTurn = << [row |-> 7, col |-> 7, tile |-> d1.drawn[1]],
                                  [row |-> 7, col |-> 8, tile |-> d1.drawn[2]] >>
           /\ players = [q \in PlayerIdx |->
                           [score |-> 0, rack |-> IF q = 0 THEN <<>> ELSE d2.drawn]]
           /\ tileBag = d2.remaining
           /\ timers = << [kind |-> "pass", player |-> 0,
                           tilesToRecall |-> << [row |-> 7, col |-> 7, tile |-> d1.drawn[1]],
                                                [row |-> 7, col |-> 8, tile |-> d1.drawn[2]] >>,
                           slack |-> RaceSteps] >>
  /\ timersSet = MaxTimersSet
  /\ currentPlayerIndex = 0
  /\ turnNumber = 1
  /\ isFirstMove = TRUE
  /\ gameOver = FALSE
  /\ winner = null
  /\ gamePhase = "playing"
  /\ gameMode \in {"standard", "freeplay"}
  /\ hidePlayerTiles = FALSE
  /\ rackRevealState = [activeRack |-> 0, readyPending |-> FALSE]
  /\ draggingTile = NoTile
  /\ dragSourceCell = NoCell
  /\ blankSelection = NoSelection
  /\ exchangeMode = FALSE
  /\ selectedForExchange = {}
  /\ dictionaryLoaded = TRUE
  /\ dictionary = [loaded |-> TRUE, words |-> DictWords]
  /\ message = NoMessage
  /\ gameMessage = Msg("info")

NextRace ==
  \/ \E q \in PlayerIdx : \E i \in 1..Len(rackOf(q)) : handleDragStart(rackOf(q)[i])
  \/ \E cell \in DropCells : handleBoardTileDragStart(cell[1], cell[2])
  \/ handleDragEnd
  \/ \E cell \in DropCells : handleDropTile(cell[1], cell[2])
  \/ handleDropToRack
  \/ submitRejected
  \/ submitValid
  \/ passCallback

SpecRace == InitRace /\ [][NextRace]_vars

\* C27: no rack ever holds more tiles than a full rack (RackSize here, 7 in
\* the program), whatever the order of the operations and of the delayed
\* callbacks.
C27_RackAtMostFull ==
  \A q \in PlayerIdx : Len(players[q].rack) <= RackSize

\* C28: within a game a score changes only in a step that accepts a submit,
\* and then only the score of the player who moved: place, move, drop to
\* rack, recall, pass, exchange, a rejected submit and a forfeited turn leave
\* both scores as they are. (The start of a new game sets both scores to 0.)
C28_ScoresOnlyBySubmit ==
  [][(\E q \in PlayerIdx : players'[q].score /= players[q].score) =>
       \/ StartsGame
       \/ /\ submitValid \/ submitFreePlay
          /\ players'[Other(currentPlayerIndex)].score
               = players[Other(currentPlayerIndex)].score]_vars

\* player 0 passed and player 1 then played: only player 1 has points
C28_Witness ==
  /\ gameMessage = Msg("success") /\ turnNumber = 3 /\ currentPlayerIndex = 0
  /\ players[0].score = 0 /\ players[1].score > 0

(***************************************************************************)
(* A new game started within the 600 ms after Recall Tiles or Pass Turn.   *)
(***************************************************************************)
\* a new game in which player 0 has put one tile of the rack on the centre
\* and has just clicked Recall Tiles or Pass Turn
InitRestart ==
  /\ \E rnd \in RandomSources(TotalTiles - 1), kind \in {"recall", "pass"} :
       LET g == initializeGame(rnd)
       IN  \E i \in 1..Len(g.players[0].rack) :
             LET tile == g.players[0].rack[i]
                 placed == << [row |-> CENTER, col |-> CENTER, tile |-> tile] >>
             IN  /\ ~tile.isBlank
                 /\ board = [g.board EXCEPT ![CENTER][CENTER] =
                               [tile |-> tile, isNewlyPlaced |-> TRUE]]
                 /\ players = [g.players EXCEPT ![0].rack = withoutId(@, tile.id)]
                 /\ placedThisTurn = placed
                 /\ tileBag = g.tileBag
                 /\ timers = << [kind |-> kind, player |-> 0, tilesToRecall |-> placed,
                                 slack |-> RaceSteps] >>
                 /\ gameMessage = IF kind = "pass" THEN Msg("info") ELSE NoMessage
  /\ timersSet = MaxTimersSet
  /\ currentPlayerIndex = 0
  /\ turnNumber = 1
  /\ isFirstMove = TRUE
  /\ gameOver = FALSE
  /\ winner = null
  /\ gamePhase = "playing"
  /\ gameMode = "standard"
  /\ hidePlayerTiles = FALSE
  /\ rackRevealState = [activeRack |-> 0, readyPending |-> FALSE]
  /\ draggingTile = NoTile
  /\ dragSourceCell = NoCell
  /\ blankSelection = NoSelection
  /\ exchangeMode = FALSE
  /\ selectedForExchange = {}
  /\ dictionaryLoaded = TRUE
  /\ dictionary = [loaded |-> TRUE, words |-> DictWords]
  /\ message = NoMessage

NextRestart ==
  \/ handleNewGame
  \/ handleCloseModal
  \/ \E mode \in GameModes, hide \in {FALSE}, rnd \in RandomSources(TotalTiles - 1) :
       handleStartGame(mode, hide, rnd)
  \/ \E q \in PlayerIdx : \E i \in 1..Len(rackOf(q)) : handleDragStart(rackOf(q)[i])
  \/ \E cell \in DropCells : handleDropTile(cell[1], cell[2])
  \/ handleDragEnd
  \/ recallCallback
  \/ passCallback

SpecRestart == InitRestart /\ [][NextRestart]_vars

\* the game as a start leaves it
Fresh ==
  /\ board = createEmptyBoard
  /\ \A q \in PlayerIdx : Len(players[q].rack) = RackSize /\ players[q].score = 0
  /\ Len(tileBag) = TotalTiles - 2 * RackSize
  /\ currentPlayerIndex = 0
  /\ turnNumber = 1
  /\ placedThisTurn = <<>>
  /\ isFirstMove
  /\ ~gameOver
  /\ winner = null

\* C29: a game started from any state has an empty board, full racks, the
\* rest of the tiles in the bag, both scores 0, player 0 to move, turn number
\* 1, nothing placed, isFirstMove true, gameOver false and no winner; and
\* nothing of the game before is carried into it: no recall or pass callback
\* of that game is still pending.
C29_NewGameFresh ==
  [][StartsGame => (Fresh' /\ timers' = <<>>)]_vars

(***************************************************************************)
(* drawTiles on bags of every length and order, with counts below, at and  *)
(* above the length of the bag.                                            *)
(***************************************************************************)
MaxBag == 4
MaxDraw == 5

\* the bags: every sequence of distinct tiles of at most MaxBag tiles
Bags ==
  UNION { { [i \in 1..n |-> letterTile(30 + ids[i], IF ids[i] % 2 = 0 THEN "A" ELSE "B")] :
              ids \in { f \in [1..n -> 1..MaxBag] :
                          \A i, j \in 1..n : i /= j => f[i] /= f[j] } } :
          n \in 0..MaxBag }

InitDraw ==
  /\ tileBag \in Bags
  /\ players = [q \in PlayerIdx |-> [score |-> 0, rack |-> <<>>]]
  /\ board = createEmptyBoard
  /\ placedThisTurn = <<>>
  /\ currentPlayerIndex = 0
  /\ turnNumber = 1
  /\ isFirstMove = TRUE
  /\ gameOver = FALSE
  /\ winner = null
  /\ gamePhase = "playing"
  /\ gameMode = "standard"
  /\ hidePlayerTiles = FALSE
  /\ rackRevealState = [activeRack |-> 0, readyPending |-> FALSE]
  /\ draggingTile = NoTile
  /\ dragSourceCell = NoCell
  /\ blankSelection = NoSelection
  /\ exchangeMode = FALSE
  /\ selectedForExchange = {}
  /\ dictionaryLoaded = TRUE
  /\ dictionary = [loaded |-> TRUE, words |-> DictWords]
  /\ message = NoMessage
  /\ gameMessage = NoMessage
  /\ timers = <<>>
  /\ timersSet = 0

\* const { drawn, remaining } = drawTiles(prev.tileBag, count);
\* rack: [...rack, ...drawn], tileBag: remaining
draw(count) ==
  LET d == drawTiles(tileBag, count)
  IN  /\ tileBag' = d.remaining
      /\ players' = [players EXCEPT ![currentPlayerIndex].rack = @ \o d.drawn]
      /\ UNCHANGED <<board, currentPlayerIndex, turnNumber, placedThisTurn,
                     isFirstMove, gameOver, winner, gamePhase, gameMode,
                     hidePlayerTiles, rackRevealState, draggingTile, dragSourceCell,
                     blankSelection, exchangeMode, selectedForExchange,
                     dictionaryLoaded, message, gameMessage, dictionary,
                     timers, timersSet>>

NextDraw == \E count \in 0..MaxDraw : draw(count)

SpecDraw == InitDraw /\ [][NextDraw]_vars

\* what a draw of count tiles from bag has to return
drawnAsAsked(bag, count, d) ==
  /\ Len(d.drawn) = (IF count <= Len(bag) THEN count ELSE Len(bag))
  /\ Len(d.drawn) <= Len(bag)
  /\ \A i \in 1..Len(d.drawn) : d.drawn[i] = bag[i]
  /\ Len(d.remaining) = Len(bag) - Len(d.drawn)
  /\ \A i \in 1..Len(d.remaining) : d.remaining[i] = bag[Len(d.drawn) + i]
  /\ d.drawn \o d.remaining = bag

\* C30: drawTiles(bag, n) returns as drawn the first min(n, length of the bag)
\* tiles of the bag in their order and as remaining the other tiles in their
\* order, so that drawn followed by remaining is the bag; it has a result for
\* every count, also one above the length of the bag, and never draws more
\* tiles than the bag holds.
C30_DrawTiles ==
  \A count \in 0..MaxDraw :
    drawnAsAsked(tileBag, count, drawTiles(tileBag, count))

\* a draw has been made, and the bag left is shorter than a count that is asked
C30_Witness ==
  /\ players[0].rack /= <<>>
  /\ tileBag /= <<>>
  /\ \E count \in 0..MaxDraw :
       /\ count > Len(tileBag)
       /\ drawTiles(tileBag, count).drawn = tileBag
       /\ drawTiles(tileBag, count).remaining = <<>>

(***************************************************************************)
(* Blanks.                                                                 *)
(***************************************************************************)
\* every blank of the sequence of tiles has the empty letter
Unassigned(tiles) ==
  \A i \in 1..Len(tiles) : tiles[i].isBlank => tiles[i].letter = ""

\* the racks a new game can deal
DealtRacks ==
  { initializeGame(rnd).players[q].rack :
      rnd \in RandomSources(TotalTiles - 1), q \in PlayerIdx }

\* C31: in every reachable state every blank in the bag and in either rack
\* has the empty letter: a blank that was given a letter on the board loses
\* it before it is back in a rack or in the bag, so that a blank with a
\* letter is found on the board only.
C31_BlanksFungible ==
  /\ Unassigned(tileBag)
  /\ \A q \in PlayerIdx : Unassigned(players[q].rack)

\* in the first turn of a player, with nothing on the board, a blank is the
\* last tile of the player's full rack, which was not dealt in this order:
\* the blank was put on the board, where it was given a letter, and came back
C31_Witness ==
  /\ gamePhase = "playing"
  /\ turnNumber <= 2
  /\ TilesOnBoard = 0
  /\ placedThisTurn = <<>>
  /\ LET rack == players[currentPlayerIndex].rack
     IN  /\ Len(rack) = RackSize
         /\ rack \notin DealtRacks
         /\ rack[RackSize].isBlank
         /\ rack[RackSize].letter = ""

(***************************************************************************)
(* The fields of the game state.                                           *)
(***************************************************************************)
\* the GameState object of the component: the fields initializeGame gives it;
\* every handler makes the next one as { ...prev, the fields it changes }
gameState ==
  [board |-> board,
   players |-> players,
   currentPlayerIndex |-> currentPlayerIndex,
   tileBag |-> tileBag,
   turnNumber |-> turnNumber,
   placedThisTurn |-> placedThisTurn,
   isFirstMove |-> isFirstMove,
   gameOver |-> gameOver,
   winner |-> winner]

\* a pass that has changed the turn
PassDone == passNoTiles \/ passCallback

\* C32: the game state of a game that has just been started has the field
\* lastMove with the value null and the field challengeAvailable with the
\* value false, and challengeAvailable is false after every pass.
C32_TournamentFields ==
  [][/\ StartsGame =>
          /\ "lastMove" \in DOMAIN gameState'
          /\ gameState'.lastMove = null
          /\ "challengeAvailable" \in DOMAIN gameState'
          /\ gameState'.challengeAvailable = FALSE
     /\ PassDone =>
          /\ "challengeAvailable" \in DOMAIN gameState'
          /\ gameState'.challengeAvailable = FALSE]_vars

(***************************************************************************)
(* The list of errors of the validator.                                    *)
(***************************************************************************)
\* the five rules of the structure in their order, each with its error and
\* whether the placement breaks it
RuleList ==
  << [broken |-> Placed = {}, error |-> "No tiles placed"],
     [broken |-> ~(OneRow \/ OneColumn),
      error |-> "Tiles must be placed in a single row or column"],
     [broken |-> ~NoGaps, error |-> "Tiles must be placed without gaps"],
     [broken |-> isFirstMove /\ ~ThroughCentre,
      error |-> "First word must go through the center square"],
     [broken |-> ~isFirstMove /\ ~TouchesCommitted,
      error |-> "Word must connect to existing tiles"] >>

\* the errors of all the rules the placement breaks, in the order of the rules
AllErrors ==
  LET brokenRules == SelectSeq(RuleList, LAMBDA r : r.broken)
  IN  [i \in 1..Len(brokenRules) |-> brokenRules[i].error]

\* C33: for a placement that breaks the rules the list of errors of the
\* validator has, in the order of the rules, one entry for every rule the
\* placement breaks, not for the first of them only.
C33_AllErrorsListed ==
  ~StructureRules => submitResult.errors = AllErrors

(***************************************************************************)
(* The validator on the same placement listed in another order.            *)
(***************************************************************************)
\* the lists of positions that name the cells placed this turn
PlacementLists ==
  { [i \in 1..Cardinality(Placed) |-> [row |-> order[i][1], col |-> order[i][2]]] :
      order \in placementOrders(Placed) }

resultFor(placedTiles) ==
  findWordsFromPlacement(board, placedTiles, isFirstMove, dictionary)

\* words.map((w) => w.word.toUpperCase()).join(', '): the words in the order
\* of the list (the letters of the tiles are upper case already)
wordList(words) == [i \in 1..Len(words) |-> words[i].word]

\* the text of the error: the invalid words error names the words
errorText(result) ==
  IF isInvalidWordError(result)
  THEN <<errorMessage(result), wordList(result.words)>>
  ELSE result.errors

WordSet(result) == { result.words[i] : i \in 1..Len(result.words) }

\* C34 as stated: evaluated on the same board, the same set of placed
\* positions and the same first move flag with the same dictionary, the
\* validator returns the same validity, words, errors and total score.
C34_SameResult ==
  \A placedTiles \in PlacementLists :
    /\ resultFor(placedTiles) = submitResult
    /\ errorText(resultFor(placedTiles)) = errorText(submitResult)

\* C34, amended: in whatever order the placed positions are listed, the
\* validator returns the same validity, the same total score, the same error
\* of a rule and the same words, each once; the order of the words in the
\* list and in the text of the invalid words error follows the order of the
\* placement list. A submit that is turned down leaves the board and the
\* placement list as they were.
C34_SameUpToOrder ==
  /\ [](\A placedTiles \in PlacementLists :
          LET result == resultFor(placedTiles)
          IN  /\ result.isValid = submitResult.isValid
              /\ result.totalScore = submitResult.totalScore
              /\ result.errors = submitResult.errors
              /\ WordSet(result) = WordSet(submitResult)
              /\ Len(result.words) = Len(submitResult.words))
  /\ [][submitRejected => UNCHANGED <<board, placedThisTurn>>]_vars

\* two tiles were placed side by side below a committed word, each forming a
\* word of its own column, and the submit was turned down
C34_Witness ==
  /\ Cardinality(Placed) = 2
  /\ Len(submitResult.words) = 3
  /\ ~submitResult.isValid
  /\ gameMessage = Msg("error")

(***************************************************************************)
(* Turns.                                                                  *)
(***************************************************************************)
\* C35: in every reachable state of a game currentPlayerIndex is
\* (turnNumber - 1) mod 2: the turn number and the current player change
\* together, once for each action that uses up a turn, also when an action is
\* taken while the callback of a pass or of a recall is pending.
C35_TurnParity ==
  currentPlayerIndex = (turnNumber - 1) % 2

(***************************************************************************)
(* Tiles that reach the board.                                             *)
(***************************************************************************)
RackIds(q) == { players[q].rack[i].id : i \in 1..Len(players[q].rack) }
BoardIds ==
  { board[cell[1]][cell[2]].tile.id :
      cell \in { c \in Idx \X Idx : hasTile(board, c[1], c[2]) } }

\* C36: only a tile of the rack of the current player is put on the board: a
\* tile that a step brings to the board was in the rack of the player who is
\* current at that step and is in no rack after it, so that no tile is in a
\* rack and on the board at once.
C36_OwnRackOnly ==
  /\ [](\A q \in PlayerIdx : RackIds(q) \cap BoardIds = {})
  /\ [][\A id \in BoardIds' \ BoardIds :
          /\ id \in RackIds(currentPlayerIndex)
          /\ \A q \in PlayerIdx : id \notin RackIds(q)']_vars

(***************************************************************************)
(* Committed tiles.                                                        *)
(***************************************************************************)
\* the cells that hold a tile an accepted submit has committed
CommittedCells ==
  { cell \in Idx \X Idx :
      hasTile(board, cell[1], cell[2]) /\ ~board[cell[1]][cell[2]].isNewlyPlaced }

\* C37: a cell that holds a committed tile holds the same tile, with the same
\* letter, after every step of the game: no place, move, drop to the rack,
\* recall, pass, forfeit, exchange or later submit takes it away, moves it or
\* puts another tile in its place. (A new game starts with an empty board.)
C37_CommittedStay ==
  [][~StartsGame =>
       \A cell \in CommittedCells :
         /\ cell \in CommittedCells'
         /\ board'[cell[1]][cell[2]].tile = board[cell[1]][cell[2]].tile]_vars

\* a committed tile is on the board in the third turn, after the turn that
\* followed its submit has been used up
C37_Witness ==
  /\ CommittedCells /= {}
  /\ turnNumber = 3
  /\ ~gameOver

(***************************************************************************)
(* The first move.                                                         *)
(***************************************************************************)
\* C38: isFirstMove is true exactly while the board holds no committed tile:
\* a pass, an exchange, a recall, a submit that is turned down and a forfeit
\* leave it true, and the first accepted submit makes it false, so that the
\* validator looks at the centre square for the first accepted move and at
\* the connection to committed tiles for every later one.
C38_FirstMove ==
  /\ [](isFirstMove <=> CommittedCells = {})
  /\ [][(isFirstMove /\ ~isFirstMove') <=> (isFirstMove /\ AcceptedSubmit)]_vars
  /\ [][(~isFirstMove /\ isFirstMove') => StartsGame]_vars

\* player 0 has used up the first turn without a play that counted, player 1
\* has made the first accepted submit in the second, and isFirstMove is false
C38_Witness ==
  /\ ~isFirstMove
  /\ turnNumber = 3
  /\ players[0].score = 0
  /\ players[1].score > 0
  /\ CommittedCells /= {}

(***************************************************************************)
(* The exchange selection.                                                 *)
(***************************************************************************)
\* the tiles of the current player's rack that are selected
tilesSelected ==
  SelectSeq(rackOf(currentPlayerIndex), LAMBDA t : t.id \in selectedForExchange)

\* C39: whenever an exchange is confirmed, every selected id is the id of a
\* tile of the current player's rack, so that as many tiles are exchanged as
\* are selected and no turn is used up by an exchange that swaps no tile.
C39_SelectionOfCurrentRack ==
  [][handleConfirmExchange =>
       /\ selectedForExchange \subseteq RackIds(currentPlayerIndex)
       /\ Len(tilesSelected) = Cardinality(selectedForExchange)
       /\ turnNumber' /= turnNumber => Len(tilesSelected) > 0]_vars

(***************************************************************************)
(* Games with the tiles of the players hidden.                             *)
(***************************************************************************)
\* mutation: only the rack of the player who is not current is obscured
isObscuredRackOtherOnly(index) == hidePlayerTiles /\ currentPlayerIndex /= index

\* (hidePlayerTiles && !isCurrentPlayer) || showReadyButton
isObscuredRack(index) ==
  (hidePlayerTiles /\ currentPlayerIndex /= index) \/ showReadyButton(index)

\* Start Game with "hide player tiles" ticked
StartsGameHidden ==
  \E mode \in GameModes, hide \in {TRUE}, rnd \in RandomSources(TotalTiles - 1) :
    handleStartGame(mode, hide, rnd)

NextHide ==
  \/ \E p \in PlayerIdx : \E i \in 1..Len(rackOf(p)) : handleDragStart(rackOf(p)[i])
  \/ \E cell \in DropCells : handleBoardTileDragStart(cell[1], cell[2])
  \/ handleDragEnd
  \/ \E cell \in DropCells : handleDropTile(cell[1], cell[2])
  \/ handleDropToRack
  \/ \E letter \in BlankLetters : handleBlankLetterSelect(letter)
  \/ handleRecallTiles
  \/ recallCallback
  \/ submitNotReady
  \/ submitFreePlay
  \/ submitForfeit
  \/ submitRejected
  \/ submitValid
  \/ passWithTiles
  \/ passCallback
  \/ passNoTiles
  \/ handleToggleExchangeMode
  \/ \E p \in PlayerIdx : \E i \in 1..Len(rackOf(p)) : handleToggleTileSelection(rackOf(p)[i])
  \/ exchangeRejected
  \/ exchangeConfirmed
  \/ handleNewGame
  \/ handleCloseModal
  \/ StartsGameHidden
  \/ handleReady
  \/ \E words \in {DictWords, {}} : dictionaryLoads(words)

SpecHide == Init /\ [][NextHide]_vars

====
